---- MODULE Spec2Model ----
(***************************************************************************)
(* Dialogue workflow orchestrator of the airline customer-service bot:     *)
(* the session state store with its TTL cache (workflow.py, cache.py),     *)
(* the booking backend (airline_api.py), the validators, the workflow      *)
(* handlers and the dispatcher process_message (workflow.py).              *)
(*                                                                         *)
(* Text is modelled as a sequence of one-character strings, so that every  *)
(* "keyword in message" test of the source is a real substring search.     *)
(***************************************************************************)
EXTENDS Integers, Sequences, FiniteSets, TLC

(***************************************************************************)
(* Bounds of the model.                                                    *)
(***************************************************************************)
\* turns (requests) of one run
MaxTurns == 3

\* turns of a conversation about one kind of task (fewer kinds of turn, longer)
MaxTaskTurns == 4
\* rows the workflow_states table may hold (uuid4 ids are drawn 1..MaxWorkflows)
MaxWorkflows == 3
\* nesting of process_message inside itself at which the interpreter's
\* recursion limit is taken to be hit (more than any row count can need)
MaxDepth == 5
\* workflow ids used by the direct store calls of StoreSpec
MaxStoreIds == 2

(***************************************************************************)
(* Text primitives: str.lower(), "x in s", any(c.isdigit() for c in s).    *)
(***************************************************************************)
UpperToLower ==
  [c \in {"A","B","C","D","E","F","G","H","I","J","K","L","M","N","O","P","Q",
          "R","S","T","U","V","W","X","Y","Z"} |->
     CASE c = "A" -> "a" [] c = "B" -> "b" [] c = "C" -> "c" [] c = "D" -> "d"
       [] c = "E" -> "e" [] c = "F" -> "f" [] c = "G" -> "g" [] c = "H" -> "h"
       [] c = "I" -> "i" [] c = "J" -> "j" [] c = "K" -> "k" [] c = "L" -> "l"
       [] c = "M" -> "m" [] c = "N" -> "n" [] c = "O" -> "o" [] c = "P" -> "p"
       [] c = "Q" -> "q" [] c = "R" -> "r" [] c = "S" -> "s" [] c = "T" -> "t"
       [] c = "U" -> "u" [] c = "V" -> "v" [] c = "W" -> "w" [] c = "X" -> "x"
       [] c = "Y" -> "y" [] c = "Z" -> "z"]

LowerLetters ==
  {"a","b","c","d","e","f","g","h","i","j","k","l","m","n","o","p","q",
   "r","s","t","u","v","w","x","y","z"}

Digits == {"0","1","2","3","4","5","6","7","8","9"}

DigitVal ==
  [c \in Digits |->
     CASE c = "0" -> 0 [] c = "1" -> 1 [] c = "2" -> 2 [] c = "3" -> 3
       [] c = "4" -> 4 [] c = "5" -> 5 [] c = "6" -> 6 [] c = "7" -> 7
       [] c = "8" -> 8 [] c = "9" -> 9]

lower(s) == [i \in 1..Len(s) |->
               IF s[i] \in DOMAIN UpperToLower THEN UpperToLower[s[i]] ELSE s[i]]

upper(s) == [i \in 1..Len(s) |->
               IF \E c \in DOMAIN UpperToLower : UpperToLower[c] = s[i]
               THEN CHOOSE c \in DOMAIN UpperToLower : UpperToLower[c] = s[i]
               ELSE s[i]]

\* needle in hay
Contains(hay, needle) ==
  \E i \in 0..(Len(hay) - Len(needle)) :
     \A j \in 1..Len(needle) : hay[i + j] = needle[j]

\* any(w in hay for w in words)
ContainsAny(hay, words) == \E w \in words : Contains(hay, w)

\* any(char.isdigit() for char in s)
HasDigit(s) == \E i \in 1..Len(s) : s[i] \in Digits

isalpha(s) == Len(s) > 0 /\ \A i \in 1..Len(s) :
                 s[i] \in LowerLetters \/ s[i] \in DOMAIN UpperToLower

\* str.strip() for the blanks the modelled texts can carry
RECURSIVE lstrip(_)
lstrip(s) == IF Len(s) > 0 /\ s[1] = " " THEN lstrip(Tail(s)) ELSE s
RECURSIVE rstrip(_)
rstrip(s) == IF Len(s) > 0 /\ s[Len(s)] = " " THEN rstrip(SubSeq(s, 1, Len(s) - 1)) ELSE s
strip(s) == rstrip(lstrip(s))

(***************************************************************************)
(* Keyword lists of workflow.py.                                           *)
(***************************************************************************)
irrelevant_patterns ==
  { <<"w","e","a","t","h","e","r">>, <<"n","e","w","s">>, <<"j","o","k","e">>, <<"s","t","o","r","y">>, <<"r","e","c","i","p","e">>, <<"g","a","m","e">>,
    <<"c","a","l","c","u","l","a","t","e">>, <<"m","a","t","h">>, <<"t","r","a","n","s","l","a","t","e">>, <<"d","e","f","i","n","e">>, <<"w","i","k","i","p","e","d","i","a">>,
    <<"s","p","o","r","t","s">>, <<"m","o","v","i","e">>, <<"m","u","s","i","c">>, <<"r","e","s","t","a","u","r","a","n","t">>, <<"h","o","t","e","l">> }

question_indicators ==
  { <<"i","s"," ","t","h","e","r","e">>, <<"a","r","e"," ","t","h","e","r","e">>, <<"d","o"," ","y","o","u">>, <<"c","a","n"," ","i">>, <<"c","a","n"," ","y","o","u">>,
    <<"w","h","a","t"," ","i","s">>, <<"w","h","a","t"," ","a","r","e">>, <<"h","o","w"," ","m","u","c","h">>, <<"h","o","w"," ","m","a","n","y">>, <<"t","e","l","l"," ","m","e">>,
    <<"p","o","l","i","c","y">>, <<"a","l","l","o","w","e","d">>, <<"s","p","e","c","i","a","l">>, <<"c","h","i","l","d","r","e","n">>, <<"i","n","f","a","n","t">>, <<"p","e","t">>,
    <<"f","i","l","e">>, <<"c","o","m","p","l","a","i","n","t">>, <<"c","o","m","p","l","a","i","n">>, <<"d","a","m","a","g","e","d">>, <<"m","i","s","s","i","n","g">>, <<"l","o","s","t">>,
    <<"d","i","s","c","o","u","n","t">>, <<"d","e","a","l">>, <<"f","a","r","e">>, <<"p","r","i","c","e">>, <<"s","c","h","e","d","u","l","e">>, <<"i","n","s","u","r","a","n","c","e">>,
    <<"m","e","d","i","c","a","l">>, <<"p","r","o","h","i","b","i","t","e","d">>, <<"s","p","o","r","t">>, <<"m","u","s","i","c">>, <<"i","n","s","t","r","u","m","e","n","t">> }

new_booking_phrases == { <<"b","o","o","k"," ","a"," ","n","e","w">>, <<"b","o","o","k"," ","n","e","w">>, <<"n","e","w"," ","f","l","i","g","h","t">>, <<"n","e","e","d"," ","t","o"," ","b","o","o","k">> }

switch_words == { <<"s","w","i","t","c","h">>, <<"c","h","a","n","g","e"," ","t","o">>, <<"d","o">>, <<"s","t","a","r","t">> }

continue_words == { <<"c","o","n","t","i","n","u","e">>, <<"y","e","s">>, <<"p","r","o","c","e","e","d">>, <<"g","o"," ","a","h","e","a","d">> }

confirm_relevant_words == { <<"y","e","s">>, <<"n","o">>, <<"c","o","n","f","i","r","m">>, <<"c","a","n","c","e","l">> }

clear_switch_phrases ==
  { <<"i","n","s","t","e","a","d">>, <<"r","a","t","h","e","r">>, <<"a","c","t","u","a","l","l","y">>, <<"n","o"," ">>, <<"c","h","a","n","g","e"," ","t","o">>, <<"s","w","i","t","c","h"," ","t","o">>,
    <<"i"," ","w","a","n","t"," ","t","o">>, <<"i"," ","n","e","e","d"," ","t","o">>, <<"l","e","t"," ","m","e">>, <<"h","e","l","p"," ","m","e">> }

exit_words == { <<"e","x","i","t">>, <<"q","u","i","t">>, <<"s","t","o","p">>, <<"c","a","n","c","e","l"," ","t","h","i","s">>, <<"s","t","a","r","t"," ","o","v","e","r">>, <<"f","o","r","g","e","t"," ","i","t">> }

status_closing_words == { <<"f","i","n","e">>, <<"g","o","o","d">>, <<"o","k","a","y">>, <<"t","h","a","n","k","s">>, <<"a","l","l"," ","s","e","t">> }

baggage_closing_words == { <<"t","h","a","n","k","s">>, <<"t","h","a","t","'","s"," ","a","l","l">>, <<"n","o","t","h","i","n","g">>, <<"n","o">> }

show_all_words == { <<"s","h","o","w">>, <<"a","l","l">>, <<"l","i","s","t">> }

change_instead_words == { <<"c","h","a","n","g","e">>, <<"m","o","d","i","f","y">>, <<"r","e","s","c","h","e","d","u","l","e">> }

policy_question_words == { <<"p","o","l","i","c","y">>, <<"f","e","e">>, <<"r","e","f","u","n","d">>, <<"c","o","s","t">> }

confirm_yes_words == { <<"y","e","s">>, <<"c","o","n","f","i","r","m">>, <<"s","u","r","e">>, <<"p","r","o","c","e","e","d">> }

confirm_no_words == { <<"n","o">>, <<"n","e","v","e","r","m","i","n","d">>, <<"k","e","e","p">>, <<"d","o","n","'","t">>, <<"c","a","n","c","e","l">> }

\* the list without check_status
task_intents_without_check_status == { "cancel_booking", "change_flight", "seat_upgrade" }
task_intents == { "cancel_booking", "check_status", "change_flight", "seat_upgrade" }

switch_target_intents ==
  { "cancel_booking", "check_status", "change_flight", "seat_upgrade", "book_flight" }

informational_intents ==
  { "pet_travel", "children_policy", "general_faq", "baggage_info", "cancellation_policy",
    "complaints", "damaged_bag", "missing_bag", "discounts", "fare_check", "flights_info",
    "insurance", "medical_policy", "prohibited_items", "sports_music_gear" }

\* the intent and workflow-type labels as text, for intent + '_' in workflow_type
LabelText ==
  [l \in { "check_status", "cancel_booking", "change_flight", "seat_upgrade", "book_flight",
           "baggage_info", "policy_inquiry" } |->
     CASE l = "check_status"   -> <<"c","h","e","c","k","_","s","t","a","t","u","s">>
       [] l = "cancel_booking" -> <<"c","a","n","c","e","l","_","b","o","o","k","i","n","g">>
       [] l = "change_flight"  -> <<"c","h","a","n","g","e","_","f","l","i","g","h","t">>
       [] l = "seat_upgrade"   -> <<"s","e","a","t","_","u","p","g","r","a","d","e">>
       [] l = "book_flight"    -> <<"b","o","o","k","_","f","l","i","g","h","t">>
       [] l = "baggage_info"   -> <<"b","a","g","g","a","g","e","_","i","n","f","o">>
       [] l = "policy_inquiry" -> <<"p","o","l","i","c","y","_","i","n","q","u","i","r","y">>]


(***************************************************************************)
(* State.                                                                  *)
(***************************************************************************)
VARIABLES
  wf,        \* table workflow_states: rows in the order of updated_at (last = newest)
  cache,     \* SmartCache: cache key "workflow:<session_id>" -> entry
  bookings,  \* table bookings: rows in insertion order
  pc,        \* "idle", or "dispatch" while process_message runs for a turn
  turn,      \* the request being processed: user, session and the NLU result
  turns,     \* requests received so far
  depth,     \* nesting of process_message inside itself for the current turn
  last,      \* what the latest process_message invocation did
  call,      \* the latest direct call of the store interface
  solo,      \* per session: the tables and the cache had only its turns run
  inflight,  \* per thread of the server: the request it runs and what it read
  serialized \* the caller sends a session's next request after the answer only

vars == <<wf, cache, bookings, pc, turn, turns, depth, last, call, solo, inflight, serialized>>

\* the users of the sample data, and the session ids requests carry
Users == { "user123", "user456" }
Sessions == { "s1" }

\* who sends the turns of Spec: <<user_id, session_id>>
Clients == { <<"user123", "s1">> }

(***************************************************************************)
(* cache.py: SmartCache.  An entry whose expiry time has passed stays in   *)
(* the dictionary until the next get (lazy expiry).                        *)
(***************************************************************************)
\* Python None where a workflow state is expected
None == [workflow_id |-> 0]

NoEntry == [present |-> FALSE]

\* a cache of one slot shared by every key
SmartCache_set_every_key(c, key, value) ==
  [k \in DOMAIN c |-> [present |-> TRUE, value |-> value, expired |-> FALSE]]

SmartCache_set(c, key, value) ==
  [c EXCEPT ![key] = [present |-> TRUE, value |-> value, expired |-> FALSE]]

SmartCache_delete(c, key) == [c EXCEPT ![key] = NoEntry]

SmartCache_get(c, key) ==
  IF ~c[key].present THEN [cache |-> c, ret |-> None]
  ELSE IF c[key].expired THEN [cache |-> SmartCache_delete(c, key), ret |-> None]
  ELSE [cache |-> c, ret |-> c[key].value]

(***************************************************************************)
(* workflow.py: the session state store.  S is the record of the tables    *)
(* and the cache a call works on; a call yields the new S (and a result).  *)
(***************************************************************************)
WorkflowRow(workflow_id, session_id, user_id, workflow_type, current_step, state_data, status) ==
  [workflow_id |-> workflow_id, user_id |-> user_id, session_id |-> session_id,
   workflow_type |-> workflow_type, current_step |-> current_step,
   state_data |-> state_data, status |-> status]

\* the query without its test of the status
SelectActive_of_any_status(rows, session_id, user_id) ==
  LET hits == SelectSeq(rows, LAMBDA r : r.session_id = session_id
                                          /\ r.user_id = user_id)
  IN IF Len(hits) > 0 THEN hits[Len(hits)] ELSE None

\* SELECT ... WHERE session_id = ? AND user_id = ? AND status = 'active'
\* ORDER BY updated_at DESC LIMIT 1
SelectActive(rows, session_id, user_id) ==
  LET hits == SelectSeq(rows, LAMBDA r : r.session_id = session_id
                                          /\ r.user_id = user_id
                                          /\ r.status = "active")
  IN IF Len(hits) > 0 THEN hits[Len(hits)] ELSE None

get_workflow_state(S, session_id, user_id) ==
  LET g   == SmartCache_get(S.cache, session_id)
      row == SelectActive(S.wf, session_id, user_id)
  IN IF g.ret # None
     THEN [st |-> [S EXCEPT !.cache = g.cache], ret |-> g.ret]
     ELSE IF row # None
     THEN [st |-> [S EXCEPT !.cache = SmartCache_set(g.cache, session_id, row)], ret |-> row]
     ELSE [st |-> [S EXCEPT !.cache = g.cache], ret |-> None]

save_workflow_state(S, workflow_id, session_id, user_id, workflow_type, current_step, state_data, status) ==
  LET row == WorkflowRow(workflow_id, session_id, user_id, workflow_type,
                         current_step, state_data, status)
  IN [S EXCEPT
        !.wf = Append(SelectSeq(S.wf, LAMBDA r : r.workflow_id # workflow_id), row),
        !.cache = SmartCache_set(S.cache, session_id, row)]

\* complete_workflow without its UPDATE: only the cache entry is deleted
complete_workflow_cache_only(S, workflow_id, session_id) ==
  [S EXCEPT !.cache = SmartCache_delete(S.cache, session_id)]

complete_workflow(S, workflow_id, session_id) ==
  LET hit  == SelectSeq(S.wf, LAMBDA r : r.workflow_id = workflow_id)
      rest == SelectSeq(S.wf, LAMBDA r : r.workflow_id # workflow_id)
  IN [S EXCEPT
        !.wf = IF Len(hit) > 0
               THEN Append(rest, [hit[1] EXCEPT !.status = "completed"])
               ELSE S.wf,
        !.cache = SmartCache_delete(S.cache, session_id)]

\* the tables and the cache as one value, and back
Store == [wf |-> wf, cache |-> cache, bookings |-> bookings]

SetStore(S) == /\ wf' = S.wf
               /\ cache' = S.cache
               /\ bookings' = S.bookings

\* state_data = {}
EmptyData == [k \in {} |-> <<>>]

(***************************************************************************)
(* The interfaces called directly (StoreSpec).                             *)
(***************************************************************************)
StoreSteps == { "waiting_for_id", "confirm" }

NoCall == [op |-> "none", workflow_id |-> 0, session_id |-> "", user_id |-> "",
           users |-> {}, readers |-> {}, arg |-> <<>>, ret |-> None]

SaveWorkflow(workflow_id, session_id, user_id, current_step, status) ==
  /\ pc = "idle"
  /\ SetStore(save_workflow_state(Store, workflow_id, session_id, user_id,
                                  "cancel_booking", current_step, EmptyData, status))
  /\ call' = [NoCall EXCEPT !.op = "save", !.workflow_id = workflow_id,
                            !.session_id = session_id, !.user_id = user_id,
                            !.users = call.users \cup {user_id}]
  /\ UNCHANGED <<solo, inflight, serialized, pc, turn, turns, depth, last>>

\* readers: the users to whom get_workflow_state returned this workflow right before
CompleteWorkflow(workflow_id, session_id) ==
  /\ pc = "idle"
  /\ SetStore(complete_workflow(Store, workflow_id, session_id))
  /\ call' = [NoCall EXCEPT !.op = "complete", !.workflow_id = workflow_id,
                            !.session_id = session_id,
                            !.users = call.users,
                            !.readers = { u \in Users :
                               get_workflow_state(Store, session_id, u).ret.workflow_id
                                 = workflow_id }]
  /\ UNCHANGED <<solo, inflight, serialized, pc, turn, turns, depth, last>>

GetActiveWorkflow(session_id, user_id) ==
  /\ pc = "idle"
  /\ LET g == get_workflow_state(Store, session_id, user_id)
     IN /\ SetStore(g.st)
        /\ call' = [NoCall EXCEPT !.op = "get", !.session_id = session_id,
                                  !.user_id = user_id, !.ret = g.ret,
                                  !.users = call.users \cup {user_id}]
  /\ UNCHANGED <<solo, inflight, serialized, pc, turn, turns, depth, last>>

\* the TTL (600 s) of the entry of a session runs out
CacheExpire(session_id) ==
  /\ cache[session_id].present
  /\ ~cache[session_id].expired
  /\ cache' = [cache EXCEPT ![session_id].expired = TRUE]
  /\ UNCHANGED <<solo, inflight, serialized, wf, bookings, pc, turn, turns, depth, last, call>>


(***************************************************************************)
(* database.py: the sample rows init_database inserts.                     *)
(***************************************************************************)
\* bookings a run may add with create_booking
MaxNewBookings == 1

BookingRow(booking_id, user_id, flight_number, passenger_name, departure_date, origin, destination, seat_number, status) ==
  [booking_id |-> booking_id, user_id |-> user_id, flight_number |-> flight_number,
   passenger_name |-> passenger_name, departure_date |-> departure_date,
   origin |-> origin, destination |-> destination, seat_number |-> seat_number,
   status |-> status]

sample_bookings ==
  << BookingRow(<<"B","K","0","0","1">>, "user123", "AA101", <<"J","o","h","n"," ","D","o","e">>, <<"2","0","2","5","-","1","1","-","1","5">>,
                <<"J","F","K">>, <<"L","A","X">>, <<"1","2","A">>, "confirmed"),
     BookingRow(<<"B","K","0","0","2">>, "user123", "AA202", <<"J","o","h","n"," ","D","o","e">>, <<"2","0","2","5","-","1","1","-","2","0">>,
                <<"L","A","X">>, <<"O","R","D">>, <<"8","B">>, "confirmed"),
     BookingRow(<<"B","K","0","0","3">>, "user456", "AA303", <<"J","a","n","e"," ","S","m","i","t","h">>, <<"2","0","2","5","-","1","1","-","1","8">>,
                <<"M","I","A">>, <<"S","F","O">>, <<"5","C">>, "confirmed") >>

(***************************************************************************)
(* airline_api.py: MockAirlineAPI over the bookings table b.               *)
(***************************************************************************)
NoBooking == [booking_id |-> <<>>]

available_seats ==
  [f \in {"AA101", "AA202", "AA303"} |->
     CASE f = "AA101" -> << <<"1","2","A">>, <<"1","2","B">>, <<"1","5","C">>, <<"2","0","A">>, <<"2","0","B">> >>
       [] f = "AA202" -> << <<"8","B">>, <<"1","0","A">>, <<"1","0","B">>, <<"1","8","C">> >>
       [] f = "AA303" -> << <<"5","C">>, <<"7","A">>, <<"7","B">>, <<"1","4","A">> >>]

\* get_booking without the ownership test
get_booking_of_any_user(b, booking_id, user_id) ==
  LET hits == SelectSeq(b, LAMBDA r : r.booking_id = booking_id)
  IN IF Len(hits) > 0 THEN hits[1] ELSE NoBooking

\* if user_id is empty the ownership test is skipped
get_booking(b, booking_id, user_id) ==
  LET hits == SelectSeq(b, LAMBDA r : r.booking_id = booking_id
                                      /\ (user_id # "" => r.user_id = user_id))
  IN IF Len(hits) > 0 THEN hits[1] ELSE NoBooking

\* the confirmed bookings of the user (callers use only their number and,
\* when there is exactly one, that one: the ORDER BY is not modelled)
get_user_bookings(b, user_id) ==
  SelectSeq(b, LAMBDA r : r.user_id = user_id /\ r.status = "confirmed")

\* UPDATE bookings SET ... WHERE booking_id = ?: new maps the columns set
UpdateBooking(b, booking_id, new) ==
  [i \in 1..Len(b) |->
     IF b[i].booking_id = booking_id
     THEN [k \in DOMAIN b[i] |-> IF k \in DOMAIN new THEN new[k] ELSE b[i][k]]
     ELSE b[i]]

HasBooking(b, booking_id) == \E i \in 1..Len(b) : b[i].booking_id = booking_id

\* cancel_booking reporting success without its UPDATE
cancel_booking_without_update(b, booking_id) ==
  [bookings |-> b, success |-> HasBooking(b, booking_id)]

cancel_booking(b, booking_id) ==
  LET hits == SelectSeq(b, LAMBDA r : r.booking_id = booking_id)
  IN IF Len(hits) = 0 THEN [bookings |-> b, success |-> FALSE]
     ELSE IF hits[1].status = "cancelled" THEN [bookings |-> b, success |-> FALSE]
     ELSE [bookings |-> UpdateBooking(b, booking_id, [status |-> "cancelled"]),
           success |-> TRUE]

get_available_seats(flight_number) ==
  IF flight_number \in DOMAIN available_seats THEN available_seats[flight_number] ELSE <<>>

change_flight(b, booking_id, new_flight_number, new_date) ==
  IF ~HasBooking(b, booking_id) THEN [bookings |-> b, success |-> FALSE]
  ELSE [bookings |-> UpdateBooking(b, booking_id,
                       [flight_number |-> new_flight_number, departure_date |-> new_date]),
        success |-> TRUE]

upgrade_seat(b, booking_id, new_seat) ==
  IF ~HasBooking(b, booking_id) THEN [bookings |-> b, success |-> FALSE]
  ELSE [bookings |-> UpdateBooking(b, booking_id, [seat_number |-> new_seat]),
        success |-> TRUE]

DigitChar == [d \in 0..9 |->
                CASE d = 0 -> "0" [] d = 1 -> "1" [] d = 2 -> "2" [] d = 3 -> "3"
                  [] d = 4 -> "4" [] d = 5 -> "5" [] d = 6 -> "6" [] d = 7 -> "7"
                  [] d = 8 -> "8" [] d = 9 -> "9"]

\* f"BK{n:03d}" for n below 1000
FormatBookingId(n) ==
  << "B", "K", DigitChar[(n \div 100) % 10], DigitChar[(n \div 10) % 10], DigitChar[n % 10] >>

\* create_booking inserting the row twice
create_booking_twice(b, user_id, flight_number, passenger_name, departure_date, origin, destination, seat_number) ==
  LET booking_id == FormatBookingId(Len(b) + 1)
      row == BookingRow(booking_id, user_id, flight_number, passenger_name,
                        departure_date, origin, destination, seat_number, "confirmed")
  IN [bookings |-> Append(Append(b, row), row), success |-> TRUE, booking_id |-> booking_id]

create_booking(b, user_id, flight_number, passenger_name, departure_date, origin, destination, seat_number) ==
  LET booking_id == FormatBookingId(Len(b) + 1)
  IN [bookings |-> Append(b, BookingRow(booking_id, user_id, flight_number,
                                         passenger_name, departure_date, origin,
                                         destination, seat_number, "confirmed")),
      success |-> TRUE, booking_id |-> booking_id]

(***************************************************************************)
(* workflow.py: the validators.  A result is <<ok, message tag>>.          *)
(***************************************************************************)
\* dt.now().date(), as <<year, month, day>>
today == <<2026, 11, 2>>

IsLeap(year) == (year % 4 = 0 /\ year % 100 # 0) \/ (year % 400 = 0)

DaysInMonth(year, month) ==
  CASE month \in {1, 3, 5, 7, 8, 10, 12} -> 31
    [] month \in {4, 6, 9, 11} -> 30
    [] OTHER -> IF IsLeap(year) THEN 29 ELSE 28

\* days of the months before this one in a year
RECURSIVE DaysBeforeMonth(_, _)
DaysBeforeMonth(year, month) ==
  IF month <= 1 THEN 0
  ELSE DaysBeforeMonth(year, month - 1) + DaysInMonth(year, month - 1)

\* date.toordinal(): the proleptic Gregorian day number
Ordinal(d) ==
  LET y == d[1] - 1
  IN 365 * y + (y \div 4) - (y \div 100) + (y \div 400) + DaysBeforeMonth(d[1], d[2]) + d[3]

\* str.split('-')
RECURSIVE SplitDash(_, _)
SplitDash(s, acc) ==
  IF Len(s) = 0 THEN << acc >>
  ELSE IF s[1] = "-" THEN << acc >> \o SplitDash(Tail(s), <<>>)
  ELSE SplitDash(Tail(s), Append(acc, s[1]))

AllDigits(s) == Len(s) > 0 /\ \A i \in 1..Len(s) : s[i] \in Digits

RECURSIVE ToInt(_)
ToInt(s) == IF Len(s) = 0 THEN 0
            ELSE 10 * ToInt(SubSeq(s, 1, Len(s) - 1)) + DigitVal[s[Len(s)]]

\* strptime(date_str, '%Y-%m-%d'): four digits, a month 1-12 and a day 1-31
\* of one or two digits, and a day that exists in that month
StrptimeOK(s) ==
  LET parts == SplitDash(s, <<>>)
  IN /\ Len(parts) = 3
     /\ AllDigits(parts[1]) /\ Len(parts[1]) = 4
     /\ AllDigits(parts[2]) /\ Len(parts[2]) \in {1, 2}
     /\ AllDigits(parts[3]) /\ Len(parts[3]) \in {1, 2}
     /\ ToInt(parts[1]) >= 1
     /\ ToInt(parts[2]) \in 1..12
     /\ ToInt(parts[3]) \in 1..DaysInMonth(ToInt(parts[1]), ToInt(parts[2]))

Strptime(s) ==
  LET parts == SplitDash(s, <<>>)
  IN << ToInt(parts[1]), ToInt(parts[2]), ToInt(parts[3]) >>

\* the diagnosis of the except branch; every outcome is "not valid"
DateErrorTag(s) ==
  LET parts == SplitDash(s, <<>>)
  IN IF Len(parts) # 3 THEN "invalid_format"
     ELSE IF ~(AllDigits(parts[1]) /\ AllDigits(parts[2]) /\ AllDigits(parts[3]))
     THEN "invalid_date"
     ELSE LET year == ToInt(parts[1])
              month == ToInt(parts[2])
              day == ToInt(parts[3])
              max_days == IF month = 2 THEN 29 ELSE DaysInMonth(2024, month)
          IN IF year < 2025 \/ year > 2100 THEN "invalid_year"
             ELSE IF month < 1 \/ month > 12 THEN "invalid_month"
             ELSE IF day < 1 \/ day > max_days THEN "invalid_day"
             ELSE IF month = 2 /\ day = 29 /\ ~IsLeap(year) THEN "not_leap_year"
             ELSE "invalid_date"

\* a validator that allows one day more
validate_date_on_one_day_more(now, date_str) ==
  IF StrptimeOK(date_str)
  THEN LET d == Ordinal(Strptime(date_str))
           t == Ordinal(now)
       IN IF d <= t THEN << FALSE, "date_in_past" >>
          ELSE IF d > t + 366 THEN << FALSE, "date_too_far" >>
          ELSE << TRUE, "" >>
  ELSE << FALSE, DateErrorTag(date_str) >>

\* validate_date called on the day now
validate_date_on(now, date_str) ==
  IF StrptimeOK(date_str)
  THEN LET d == Ordinal(Strptime(date_str))
           t == Ordinal(now)
       IN IF d <= t THEN << FALSE, "date_in_past" >>
          ELSE IF d > t + 365 THEN << FALSE, "date_too_far" >>
          ELSE << TRUE, "" >>
  ELSE << FALSE, DateErrorTag(date_str) >>

validate_date(date_str) == validate_date_on(today, date_str)

NameChars == LowerLetters \cup DOMAIN UpperToLower \cup {" ", "-", "'"}

validate_passenger_name(name) ==
  LET n == strip(name)
  IN IF Len(name) = 0 \/ Len(n) = 0 THEN << FALSE, "name_required" >>
     ELSE IF Len(n) < 2 THEN << FALSE, "name_too_short" >>
     ELSE IF Len(n) > 50 THEN << FALSE, "name_too_long" >>
     ELSE IF ~(\A i \in 1..Len(n) : n[i] \in NameChars) THEN << FALSE, "name_invalid" >>
     ELSE << TRUE, "" >>

validate_airport_code(code) ==
  LET c == strip(upper(code))
  IN IF Len(code) = 0 \/ Len(strip(code)) = 0 THEN << FALSE, "code_required" >>
     ELSE IF Len(c) < 2 \/ Len(c) > 3 THEN << FALSE, "code_length" >>
     ELSE IF ~isalpha(c) THEN << FALSE, "code_letters" >>
     ELSE << TRUE, "" >>

(***************************************************************************)
(* The booking lookup and the date validator called directly (CallSpec).   *)
(***************************************************************************)
\* airline_api.get_booking(booking_id, user_id); user_id = "" is a call
\* without the argument or with an empty one
GetBooking(booking_id, user_id) ==
  /\ pc = "idle"
  /\ call' = [NoCall EXCEPT !.op = "get_booking", !.user_id = user_id,
                            !.arg = booking_id,
                            !.ret = get_booking(bookings, booking_id, user_id)]
  /\ UNCHANGED <<solo, inflight, serialized, wf, cache, bookings, pc, turn, turns, depth, last>>

\* validate_date(date_str) called on the day now
ValidateDate(now, date_str) ==
  /\ pc = "idle"
  /\ call' = [NoCall EXCEPT !.op = "validate_date", !.arg = << now, date_str >>,
                            !.ret = validate_date_on(now, date_str)]
  /\ UNCHANGED <<solo, inflight, serialized, wf, cache, bookings, pc, turn, turns, depth, last>>


(***************************************************************************)
(* The turns the model feeds in: a text with the entities the NLU          *)
(* extracted from it; the classified intent is drawn separately.           *)
(***************************************************************************)
Entities(booking_id, date, origin, destination, passenger_name) ==
  [booking_id |-> booking_id, date |-> date, origin |-> origin,
   destination |-> destination, passenger_name |-> passenger_name]

NoEntities == Entities(<<>>, <<>>, <<>>, <<>>, <<>>)

Utterance(msg, entities) == [msg |-> msg, entities |-> entities]

Utterances ==
  { Utterance(<<"H","e","l","l","o">>, NoEntities),
    Utterance(<<"y","e","s">>, NoEntities),
    Utterance(<<"n","o">>, NoEntities),
    Utterance(<<"t","h","a","n","k","s">>, NoEntities),
    Utterance(<<"q","u","i","t">>, NoEntities),
    Utterance(<<"s","t","a","r","t"," ","o","v","e","r">>, NoEntities),
    Utterance(<<"W","h","a","t"," ","i","s"," ","t","h","e"," ","w","e","a","t","h","e","r">>, NoEntities),
    Utterance(<<"b","o","o","k"," ","a"," ","n","e","w"," ","f","l","i","g","h","t">>, NoEntities),
    Utterance(<<"s","w","i","t","c","h"," ","t","o"," ","c","a","n","c","e","l">>, NoEntities),
    Utterance(<<"w","h","a","t"," ","d","o"," ","i"," ","n","e","e","d">>, NoEntities),
    Utterance(<<"i"," ","w","a","n","t"," ","t","o"," ","u","p","g","r","a","d","e">>, NoEntities),
    Utterance(<<"y","e","s"," ","i"," ","w","a","n","t"," ","t","o"," ","c","a","n","c","e","l">>, NoEntities),
    Utterance(<<"B","K","0","0","1">>, Entities(<<"B","K","0","0","1">>, <<>>, <<>>, <<>>, <<>>)),
    Utterance(<<"2","0","2","7","-","0","1","-","1","5">>, Entities(<<>>, <<"2","0","2","7","-","0","1","-","1","5">>, <<>>, <<>>, <<>>)),
    Utterance(<<"J","F","K"," ","t","o"," ","L","A","X">>, Entities(<<>>, <<>>, <<"J","F","K">>, <<"L","A","X">>, <<>>)) }

Intents ==
  { "check_status", "cancel_booking", "change_flight", "seat_upgrade", "book_flight",
    "baggage_info", "cancellation_policy", "pet_travel", "greeting" }

\* turns about abandoning a workflow: every phrase of the exit list but
\* "cancel this", texts that start a workflow, and a switch to no named task
ExitUtterances ==
  { Utterance(<<"H","e","l","l","o">>, NoEntities),
    Utterance(<<"B","K","0","0","1">>, Entities(<<"B","K","0","0","1">>, <<>>, <<>>, <<>>, <<>>)),
    Utterance(<<"e","x","i","t">>, NoEntities),
    Utterance(<<"q","u","i","t">>, NoEntities),
    Utterance(<<"s","t","o","p">>, NoEntities),
    Utterance(<<"s","t","a","r","t"," ","o","v","e","r">>, NoEntities),
    Utterance(<<"f","o","r","g","e","t"," ","i","t">>, NoEntities),
    Utterance(<<"l","e","t","s"," ","s","w","i","t","c","h">>, NoEntities) }

\* turns of the tasks on a booking: an owned id, an id of another user, an
\* unknown id, a date that validates and one that does not, a seat
TaskUtterances ==
  { Utterance(<<"H","e","l","l","o">>, NoEntities),
    Utterance(<<"y","e","s">>, NoEntities),
    Utterance(<<"n","o">>, NoEntities),
    Utterance(<<"B","K","0","0","1">>, Entities(<<"B","K","0","0","1">>, <<>>, <<>>, <<>>, <<>>)),
    Utterance(<<"B","K","0","0","3">>, Entities(<<"B","K","0","0","3">>, <<>>, <<>>, <<>>, <<>>)),
    Utterance(<<"B","K","9","9","9">>, Entities(<<"B","K","9","9","9">>, <<>>, <<>>, <<>>, <<>>)),
    Utterance(<<"2","0","2","7","-","0","1","-","1","5">>, Entities(<<>>, <<"2","0","2","7","-","0","1","-","1","5">>, <<>>, <<>>, <<>>)),
    Utterance(<<"2","0","2","0","-","0","1","-","0","1">>, Entities(<<>>, <<"2","0","2","0","-","0","1","-","0","1">>, <<>>, <<>>, <<>>)),
    Utterance(<<"1","2","B">>, NoEntities) }

TaskIntents == { "cancel_booking", "change_flight", "seat_upgrade", "check_status", "greeting" }

\* turns of a new booking: slots alone and together, equal airports, a code
\* and a date that do not validate
BookUtterances ==
  { Utterance(<<"H","e","l","l","o">>, NoEntities),
    Utterance(<<"J","F","K"," ","t","o"," ","L","A","X">>, Entities(<<>>, <<>>, <<"J","F","K">>, <<"L","A","X">>, <<>>)),
    Utterance(<<"J","F","K"," ","t","o"," ","J","F","K">>, Entities(<<>>, <<>>, <<"J","F","K">>, <<"J","F","K">>, <<>>)),
    Utterance(<<"J","1"," ","t","o"," ","L","A","X">>, Entities(<<>>, <<>>, <<"J","1">>, <<"L","A","X">>, <<>>)),
    Utterance(<<"2","0","2","7","-","0","1","-","1","5">>, Entities(<<>>, <<"2","0","2","7","-","0","1","-","1","5">>, <<>>, <<>>, <<>>)),
    Utterance(<<"2","0","2","0","-","0","1","-","0","1">>, Entities(<<>>, <<"2","0","2","0","-","0","1","-","0","1">>, <<>>, <<>>, <<>>)),
    Utterance(<<"2","0","2","7","-","0","2","-","2","0"," ","f","o","r"," ","A","n","n"," ","L","e","e">>, Entities(<<>>, <<"2","0","2","7","-","0","2","-","2","0">>, <<>>, <<>>, <<"A","n","n"," ","L","e","e">>)) }

BookIntents == { "book_flight", "greeting" }

\* turns of a seat upgrade: two bookings of the user on different flights,
\* a seat of each flight's list and a seat of neither
SeatUtterances ==
  { Utterance(<<"H","e","l","l","o">>, NoEntities),
    Utterance(<<"B","K","0","0","1">>, Entities(<<"B","K","0","0","1">>, <<>>, <<>>, <<>>, <<>>)),
    Utterance(<<"B","K","0","0","2">>, Entities(<<"B","K","0","0","2">>, <<>>, <<>>, <<>>, <<>>)),
    Utterance(<<"1","2","B">>, NoEntities),
    Utterance(<<"1","0","A"," ","p","l","e","a","s","e">>, NoEntities),
    Utterance(<<"9","F">>, NoEntities) }

\* turns of a cancellation or a change that ask for the list of bookings
ListUtterances ==
  { Utterance(<<"H","e","l","l","o">>, NoEntities),
    Utterance(<<"s","h","o","w"," ","a","l","l">>, NoEntities),
    Utterance(<<"l","i","s","t"," ","m","y"," ","b","o","o","k","i","n","g","s">>, NoEntities),
    Utterance(<<"B","K","0","0","1">>, Entities(<<"B","K","0","0","1">>, <<>>, <<>>, <<>>, <<>>)) }

\* turns of a cancellation at its confirmation: questions about the policy,
\* a request to change the flight instead, and the confirmation
ConfirmUtterances ==
  { Utterance(<<"H","e","l","l","o">>, NoEntities),
    Utterance(<<"B","K","0","0","1">>, Entities(<<"B","K","0","0","1">>, <<>>, <<>>, <<>>, <<>>)),
    Utterance(<<"w","h","a","t"," ","i","s"," ","t","h","e"," ","f","e","e">>, NoEntities),
    Utterance(<<"r","e","f","u","n","d","?">>, NoEntities),
    Utterance(<<"c","h","a","n","g","e"," ","i","t"," ","i","n","s","t","e","a","d">>, NoEntities),
    Utterance(<<"r","e","s","c","h","e","d","u","l","e">>, NoEntities),
    Utterance(<<"y","e","s">>, NoEntities) }

\* turns of a new booking whose details fail one or several of the checks
ValidateUtterances ==
  { Utterance(<<"H","e","l","l","o">>, NoEntities),
    Utterance(<<"J","1"," ","t","o"," ","J","1">>, Entities(<<>>, <<>>, <<"J","1">>, <<"J","1">>, <<>>)),
    Utterance(<<"J","F","K"," ","t","o"," ","L","1">>, Entities(<<>>, <<>>, <<"J","F","K">>, <<"L","1">>, <<>>)),
    Utterance(<<"J","F","K"," ","t","o"," ","J","F","K">>, Entities(<<>>, <<>>, <<"J","F","K">>, <<"J","F","K">>, <<>>)),
    Utterance(<<"2","0","2","0","-","0","1","-","0","1"," ","f","o","r"," ","R","2">>, Entities(<<>>, <<"2","0","2","0","-","0","1","-","0","1">>, <<>>, <<>>, <<"R","2">>)),
    Utterance(<<"2","0","2","7","-","0","1","-","1","5"," ","f","o","r"," ","R","2">>, Entities(<<>>, <<"2","0","2","7","-","0","1","-","1","5">>, <<>>, <<>>, <<"R","2">>)),
    Utterance(<<"2","0","2","7","-","0","2","-","2","0"," ","f","o","r"," ","A","n","n"," ","L","e","e">>, Entities(<<>>, <<"2","0","2","7","-","0","2","-","2","0">>, <<>>, <<>>, <<"A","n","n"," ","L","e","e">>)) }

\* turns of a new booking sent at the same time: the airports in one, the
\* date and the name in the other
RaceUtterances ==
  { Utterance(<<"H","e","l","l","o">>, NoEntities),
    Utterance(<<"J","F","K"," ","t","o"," ","L","A","X">>, Entities(<<>>, <<>>, <<"J","F","K">>, <<"L","A","X">>, <<>>)),
    Utterance(<<"2","0","2","7","-","0","2","-","2","0"," ","f","o","r"," ","A","n","n"," ","L","e","e">>, Entities(<<>>, <<"2","0","2","7","-","0","2","-","2","0">>, <<>>, <<>>, <<"A","n","n"," ","L","e","e">>)) }

\* one user in two sessions: a booking made in one, and the cancellation of
\* the booking with the next free id
SessionUtterances ==
  { Utterance(<<"H","e","l","l","o">>, NoEntities),
    Utterance(<<"B","K","0","0","4">>, Entities(<<"B","K","0","0","4">>, <<>>, <<>>, <<>>, <<>>)),
    Utterance(<<"J","F","K"," ","t","o"," ","L","A","X"," ","2","0","2","7","-","0","2","-","2","0"," ","f","o","r"," ","A","n","n"," ","L","e","e">>,
              Entities(<<>>, <<"2","0","2","7","-","0","2","-","2","0">>, <<"J","F","K">>, <<"L","A","X">>, <<"A","n","n"," ","L","e","e">>)) }

AllUtterances ==
  UNION { Utterances, ExitUtterances, TaskUtterances, BookUtterances, ValidateUtterances,
          SeatUtterances, ListUtterances, ConfirmUtterances, RaceUtterances, SessionUtterances }

Texts == { u.msg : u \in AllUtterances }

AllKeywords ==
  UNION { irrelevant_patterns, question_indicators, new_booking_phrases, switch_words,
          continue_words, confirm_relevant_words, clear_switch_phrases, exit_words,
          status_closing_words, baggage_closing_words, show_all_words,
          change_instead_words, policy_question_words, confirm_yes_words,
          confirm_no_words,
          { <<"c","a","n","c","e","l">>, <<"c","h","a","n","g","e">>, <<"m","o","d","i","f","y">>, <<"u","p","g","r","a","d","e">>, <<"s","e","a","t">>, <<"b","o","o","k">>,
            <<"b","a","g","g","a","g","e">>, <<"l","u","g","g","a","g","e">>, <<"c","a","r","r","y">>, <<"c","a","b","i","n">>, <<"c","h","e","c","k">>, <<"p","r","o","h","i","b","i","t","e","d">>,
            <<"n","o","t"," ","a","l","l","o","w","e","d">>, <<"e","x","c","e","s","s">>, <<"o","v","e","r","w","e","i","g","h","t">>, <<"e","x","t","r","a">> } }

\* for every text, the keywords found in text.lower()
KeywordHits == [m \in Texts |-> { w \in AllKeywords : Contains(lower(m), w) }]

\* any(w in message.lower() for w in words)
Has(msg, words) == (words \cap KeywordHits[msg]) # {}

(***************************************************************************)
(* Results of handlers: the store after the call, a tag naming the         *)
(* response text returned, and over = the run would need more rows than    *)
(* the bounds allow.                                                       *)
(***************************************************************************)
Reply(S, resp) == [st |-> S, resp |-> resp, over |-> FALSE]

\* dict.get(key): the value, or None (the empty text)
Get(state_data, key) == IF key \in DOMAIN state_data THEN state_data[key] ELSE <<>>

Put(state_data, key, value) ==
  [k \in (DOMAIN state_data) \cup {key} |-> IF k = key THEN value ELSE state_data[k]]

\* a start of a workflow that saves the new row under two ids
Create_twice(S, t, workflow_type, current_step, state_data, resp) ==
  IF Len(S.wf) + 1 >= MaxWorkflows
  THEN [st |-> S, resp |-> resp, over |-> TRUE]
  ELSE Reply(save_workflow_state(
               save_workflow_state(S, Len(S.wf) + 1, t.session_id, t.user_id, workflow_type,
                                   current_step, state_data, "active"),
               Len(S.wf) + 2, t.session_id, t.user_id, workflow_type,
               current_step, state_data, "active"), resp)

\* workflow_id = str(uuid.uuid4()); save_workflow_state(...): a fresh row
Create(S, t, workflow_type, current_step, state_data, resp) ==
  IF Len(S.wf) >= MaxWorkflows
  THEN [st |-> S, resp |-> resp, over |-> TRUE]
  ELSE Reply(save_workflow_state(S, Len(S.wf) + 1, t.session_id, t.user_id, workflow_type,
                                 current_step, state_data, "active"), resp)

\* a save of an existing workflow that puts it back to its first step
Advance_to_first_step(S, t, workflow, workflow_type, current_step, state_data, resp) ==
  Reply(save_workflow_state(S, workflow.workflow_id, t.session_id, t.user_id, workflow_type,
                            "waiting_for_id", state_data, "active"), resp)

Advance(S, t, workflow, workflow_type, current_step, state_data, resp) ==
  Reply(save_workflow_state(S, workflow.workflow_id, t.session_id, t.user_id, workflow_type,
                            current_step, state_data, "active"), resp)

\* the end of a workflow without its complete_workflow call
Finish_without_complete(S, t, workflow, resp) == Reply(S, resp)

Finish(S, t, workflow, resp) ==
  Reply(complete_workflow(S, workflow.workflow_id, t.session_id), resp)

BookingIdData(booking_id) == [k \in {"booking_id"} |-> booking_id]

\* the handler after its reading of the workflow state and the completion of
\* a workflow of another type
booking_check_on(S, t) ==
  LET booking_id == t.entities.booking_id
      user_bookings == get_user_bookings(S.bookings, t.user_id)
  IN IF booking_id = <<>>
     THEN IF Len(user_bookings) = 0 THEN Reply(S, "no_bookings")
          ELSE IF Len(user_bookings) = 1
          THEN Create(S, t, "check_status", "showing_details",
                      BookingIdData(user_bookings[1].booking_id), "booking_details")
          ELSE Reply(S, "booking_list")
     ELSE IF get_booking(S.bookings, booking_id, t.user_id) = NoBooking
     THEN IF Len(user_bookings) = 0 THEN Reply(S, "lookup_not_found_no_bookings")
          ELSE Reply(S, "lookup_not_found_other_bookings")
     ELSE Create(S, t, "check_status", "showing_details",
                 BookingIdData(booking_id), "booking_details")

\* g: what get_workflow_state returned, and the store it left
booking_check_with(g, t) ==
  booking_check_on(IF /\ g.ret # None
                      /\ g.ret.workflow_type # "check_status"
                      /\ t.entities.booking_id # <<>>
                   THEN complete_workflow(g.st, g.ret.workflow_id, t.session_id)
                   ELSE g.st, t)

process_booking_check(S0, t) ==
  booking_check_with(get_workflow_state(S0, t.session_id, t.user_id), t)

\* a cancellation that acts on a booking id at once, without asking
cancellation_with_at_once(g, t) ==
  LET booking_id == t.entities.booking_id
      workflow == g.ret
      S == g.st
  IN IF workflow = None \/ workflow.workflow_type # "cancel_booking"
     THEN IF booking_id = <<>>
          THEN Create(S, t, "cancel_booking", "waiting_for_id", EmptyData, "cancel_ask_id")
          ELSE IF get_booking(S.bookings, booking_id, t.user_id) = NoBooking
          THEN Reply(S, "cancel_not_found")
          ELSE LET r == cancel_booking(S.bookings, booking_id)
               IN Reply([S EXCEPT !.bookings = r.bookings],
                        IF r.success THEN "cancel_done" ELSE "cancel_failed")
     ELSE IF workflow.current_step = "waiting_for_id"
     THEN IF Has(t.msg, show_all_words)
          THEN IF Len(get_user_bookings(S.bookings, t.user_id)) = 0
               THEN Finish(S, t, workflow, "no_bookings")
               ELSE Reply(S, "booking_list")
          ELSE IF booking_id # <<>>
          THEN IF get_booking(S.bookings, booking_id, t.user_id) = NoBooking
               THEN Reply(S, "cancel_not_found")
               ELSE Advance(S, t, workflow, "cancel_booking", "confirm",
                            BookingIdData(booking_id), "cancel_confirm_prompt")
          ELSE Reply(S, "cancel_need_id")
     ELSE IF workflow.current_step = "confirm"
     THEN IF Has(t.msg, change_instead_words)
          THEN Advance(S, t, workflow, "change_flight", "waiting_for_new_date",
                       BookingIdData(Get(workflow.state_data, "booking_id")),
                       "change_instead")
          ELSE IF Has(t.msg, policy_question_words) THEN Reply(S, "cancel_policy")
          ELSE IF Has(t.msg, confirm_yes_words)
          THEN LET r == cancel_booking(S.bookings, Get(workflow.state_data, "booking_id"))
               IN Finish([S EXCEPT !.bookings = r.bookings], t, workflow,
                         IF r.success THEN "cancel_done" ELSE "cancel_failed")
          ELSE IF Has(t.msg, confirm_no_words) THEN Finish(S, t, workflow, "cancel_kept")
          ELSE Reply(S, "cancel_confirm_unclear")
     ELSE Reply(S, "cancel_fallback")

\* g: what get_workflow_state returned, and the store it left
cancellation_with(g, t) ==
  LET booking_id == t.entities.booking_id
      workflow == g.ret
      S == g.st
  IN IF workflow = None \/ workflow.workflow_type # "cancel_booking"
     THEN IF booking_id = <<>>
          THEN Create(S, t, "cancel_booking", "waiting_for_id", EmptyData, "cancel_ask_id")
          ELSE IF get_booking(S.bookings, booking_id, t.user_id) = NoBooking
          THEN Reply(S, "cancel_not_found")
          ELSE Create(S, t, "cancel_booking", "confirm", BookingIdData(booking_id),
                      "cancel_confirm_prompt")
     ELSE IF workflow.current_step = "waiting_for_id"
     THEN IF Has(t.msg, show_all_words)
          THEN IF Len(get_user_bookings(S.bookings, t.user_id)) = 0
               THEN Finish(S, t, workflow, "no_bookings")
               ELSE Reply(S, "booking_list")
          ELSE IF booking_id # <<>>
          THEN IF get_booking(S.bookings, booking_id, t.user_id) = NoBooking
               THEN Reply(S, "cancel_not_found")
               ELSE Advance(S, t, workflow, "cancel_booking", "confirm",
                            BookingIdData(booking_id), "cancel_confirm_prompt")
          ELSE Reply(S, "cancel_need_id")
     ELSE IF workflow.current_step = "confirm"
     THEN IF Has(t.msg, change_instead_words)
          THEN Advance(S, t, workflow, "change_flight", "waiting_for_new_date",
                       BookingIdData(Get(workflow.state_data, "booking_id")),
                       "change_instead")
          ELSE IF Has(t.msg, policy_question_words) THEN Reply(S, "cancel_policy")
          ELSE IF Has(t.msg, confirm_yes_words)
          THEN LET r == cancel_booking(S.bookings, Get(workflow.state_data, "booking_id"))
               IN Finish([S EXCEPT !.bookings = r.bookings], t, workflow,
                         IF r.success THEN "cancel_done" ELSE "cancel_failed")
          ELSE IF Has(t.msg, confirm_no_words) THEN Finish(S, t, workflow, "cancel_kept")
          ELSE Reply(S, "cancel_confirm_unclear")
     ELSE Reply(S, "cancel_fallback")

process_cancellation(S0, t) ==
  cancellation_with(get_workflow_state(S0, t.session_id, t.user_id), t)

\* the handler after its reading of the workflow state and the completion of
\* a workflow of another type
change_flight_on(S, workflow, t) ==
  LET booking_id == t.entities.booking_id
      new_date == t.entities.date
  IN IF workflow = None \/ workflow.workflow_type # "change_flight"
     THEN IF booking_id = <<>>
          THEN Create(S, t, "change_flight", "waiting_for_id", EmptyData, "change_ask_id")
          ELSE IF get_booking(S.bookings, booking_id, t.user_id) = NoBooking
          THEN IF Len(get_user_bookings(S.bookings, t.user_id)) = 0
               THEN Reply(S, "change_not_found_no_bookings")
               ELSE Reply(S, "change_not_found_other_bookings")
          ELSE Create(S, t, "change_flight", "waiting_for_new_date",
                      BookingIdData(booking_id), "change_ask_date")
     ELSE IF workflow.current_step = "waiting_for_id"
     THEN IF booking_id # <<>>
          THEN IF get_booking(S.bookings, booking_id, t.user_id) = NoBooking
               THEN Reply(S, "change_not_found")
               ELSE Advance(S, t, workflow, "change_flight", "waiting_for_new_date",
                            BookingIdData(booking_id), "change_ask_date")
          ELSE Reply(S, "change_need_id")
     ELSE IF workflow.current_step = "waiting_for_new_date"
     THEN IF new_date # <<>>
          THEN IF ~validate_date(new_date)[1]
               THEN Reply(S, validate_date(new_date)[2])
               ELSE LET id == Get(workflow.state_data, "booking_id")
                        booking == get_booking(S.bookings, id, t.user_id)
                    IN IF booking = NoBooking \/ booking.status = "cancelled"
                       THEN Finish(S, t, workflow, "change_cancelled_booking")
                       ELSE LET r == change_flight(S.bookings, id,
                                                   booking.flight_number, new_date)
                            IN Finish([S EXCEPT !.bookings = r.bookings], t, workflow,
                                      IF r.success THEN "change_done" ELSE "change_failed")
          ELSE Reply(S, "change_need_date")
     ELSE Reply(S, "change_fallback")

\* g: what get_workflow_state returned, and the store it left
change_flight_with(g, t) ==
  IF g.ret # None /\ g.ret.workflow_type # "change_flight" /\ t.entities.booking_id # <<>>
  THEN change_flight_on(complete_workflow(g.st, g.ret.workflow_id, t.session_id), None, t)
  ELSE change_flight_on(g.st, g.ret, t)

process_change_flight(S0, t) ==
  change_flight_with(get_workflow_state(S0, t.session_id, t.user_id), t)


\* \w of the regular expressions
IsWordChar(c) == c \in LowerLetters \/ c \in DOMAIN UpperToLower \/ c \in Digits \/ c = "_"

\* a match of \b(\d{1,2}[A-F])\b starts at i and has k digits
SeatMatchAt(s, i, k) ==
  /\ i >= 1 /\ i + k <= Len(s)
  /\ \A j \in i..(i + k - 1) : s[j] \in Digits
  /\ s[i + k] \in {"A", "B", "C", "D", "E", "F"}
  /\ (i = 1 \/ ~IsWordChar(s[i - 1]))
  /\ (i + k = Len(s) \/ ~IsWordChar(s[i + k + 1]))

\* re.search(seat_pattern, message.upper()).group(1), or the empty text if no match
SeatMatch(msg) ==
  LET s == upper(lower(msg))
      starts == { i \in 1..Len(s) : \E k \in {1, 2} : SeatMatchAt(s, i, k) }
  IN IF starts = {} THEN <<>>
     ELSE LET i == CHOOSE x \in starts : \A y \in starts : x <= y
              k == IF SeatMatchAt(s, i, 2) THEN 2 ELSE 1
          IN SubSeq(s, i, i + k)

SeatOf == [m \in Texts |-> SeatMatch(m)]

\* the membership test that accepts every seat
InSeq_of_anything(x, seq) == TRUE

InSeq(x, seq) == \E i \in 1..Len(seq) : seq[i] = x

SeatData(booking_id, seats) ==
  [k \in {"booking_id", "available_seats"} |->
     IF k = "booking_id" THEN booking_id ELSE seats]

\* g: what get_workflow_state returned, and the store it left
seat_upgrade_with(g, t) ==
  LET booking_id == t.entities.booking_id
      workflow == g.ret
      S == g.st
      booking == get_booking(S.bookings, booking_id, t.user_id)
  IN IF workflow = None \/ workflow.workflow_type # "seat_upgrade"
     THEN IF booking_id = <<>>
          THEN Create(S, t, "seat_upgrade", "waiting_for_id", EmptyData, "upgrade_ask_id")
          ELSE IF booking = NoBooking THEN Reply(S, "upgrade_not_found")
          ELSE Create(S, t, "seat_upgrade", "waiting_for_seat_choice",
                      SeatData(booking_id, get_available_seats(booking.flight_number)),
                      "upgrade_ask_seat")
     ELSE IF workflow.current_step = "waiting_for_id" /\ booking_id # <<>>
     THEN IF booking = NoBooking THEN Reply(S, "upgrade_not_found")
          ELSE Advance(S, t, workflow, "seat_upgrade", "waiting_for_seat_choice",
                       SeatData(booking_id, get_available_seats(booking.flight_number)),
                       "upgrade_ask_seat")
     ELSE IF workflow.current_step = "waiting_for_seat_choice"
     THEN LET new_seat == SeatOf[t.msg]
          IN IF new_seat # <<>>
             THEN IF ~InSeq(new_seat, Get(workflow.state_data, "available_seats"))
                  THEN Reply(S, "upgrade_seat_unavailable")
                  ELSE LET r == upgrade_seat(S.bookings,
                                             Get(workflow.state_data, "booking_id"), new_seat)
                       IN Finish([S EXCEPT !.bookings = r.bookings], t, workflow,
                                 IF r.success THEN "upgrade_done" ELSE "upgrade_failed")
             ELSE Reply(S, "upgrade_need_seat")
     ELSE Reply(S, "upgrade_fallback")

process_seat_upgrade(S0, t) ==
  seat_upgrade_with(get_workflow_state(S0, t.session_id, t.user_id), t)

\* the stateless informational handlers (process_pet_travel and the like)
process_informational(S, t) == Reply(S, "info")

\* g: what get_workflow_state returned, and the store it left
baggage_info_with(g, t) ==
  IF g.ret = None \/ g.ret.workflow_type # "baggage_info"
  THEN Create(g.st, t, "baggage_info", "showing_policy", EmptyData, "baggage_policy")
  ELSE Reply(g.st, "baggage_policy")

process_baggage_info(S0, t) ==
  baggage_info_with(get_workflow_state(S0, t.session_id, t.user_id), t)

\* the merge without the fallback to the value collected before
Merge_entity_only(state_data, key, value) == Put(state_data, key, value)

\* origin = entities.get('origin') or state_data.get('origin'); if origin: state_data[...] = origin
Merge(state_data, key, value) ==
  LET v == IF value # <<>> THEN value ELSE Get(state_data, key)
  IN IF v # <<>> THEN Put(state_data, key, v) ELSE state_data

\* the save of the collected details that also drops the destination
book_flight_keep_dropping_destination(S, t, workflow, state_data, resp) ==
  Advance(S, t, workflow, "book_flight", "collecting_details",
          Put(state_data, "destination", <<>>), resp)

\* save_workflow_state(..., current_step='collecting_details', state_data=...)
book_flight_keep(S, t, workflow, state_data, resp) ==
  Advance(S, t, workflow, "book_flight", "collecting_details", state_data, resp)

\* "Continue existing workflow": state_data holds the details merged so far
book_flight_collect(S, workflow, state_data, t) ==
  LET missing == { k \in {"origin", "destination", "date", "passenger_name"} :
                     Get(state_data, k) = <<>> }
  IN IF missing # {} THEN book_flight_keep(S, t, workflow, state_data, "book_missing")
     ELSE IF ~validate_date(state_data["date"])[1]
     THEN book_flight_keep(S, t, workflow, Put(state_data, "date", <<>>), validate_date(state_data["date"])[2])
     ELSE IF ~validate_passenger_name(state_data["passenger_name"])[1]
     THEN book_flight_keep(S, t, workflow, Put(state_data, "passenger_name", <<>>),
               validate_passenger_name(state_data["passenger_name"])[2])
     ELSE IF ~validate_airport_code(state_data["origin"])[1]
     THEN book_flight_keep(S, t, workflow, Put(state_data, "origin", <<>>),
               validate_airport_code(state_data["origin"])[2])
     ELSE IF ~validate_airport_code(state_data["destination"])[1]
     THEN book_flight_keep(S, t, workflow, Put(state_data, "destination", <<>>),
               validate_airport_code(state_data["destination"])[2])
     ELSE IF upper(state_data["origin"]) = upper(state_data["destination"])
     THEN book_flight_keep(S, t, workflow, Put(Put(state_data, "origin", <<>>), "destination", <<>>),
               "book_same_airports")
     ELSE IF Len(S.bookings) >= Len(sample_bookings) + MaxNewBookings
     THEN [st |-> S, resp |-> "book_done", over |-> TRUE]
     ELSE LET r == create_booking(S.bookings, t.user_id, "AA999",
                                  state_data["passenger_name"], state_data["date"],
                                  state_data["origin"], state_data["destination"],
                                  <<"T","B","D">>)
          IN Finish([S EXCEPT !.bookings = r.bookings], t, workflow,
                    IF r.success THEN "book_done" ELSE "book_failed")

\* g: what get_workflow_state returned, and the store it left
book_flight_with(S0, g, t) ==
  \* handler_map names self.process_cancellation_policy, which does not exist
  IF Has(t.msg, question_indicators) /\ t.intent \in informational_intents
  THEN Reply(S0, "AttributeError")
  ELSE IF g.ret = None \/ g.ret.workflow_type # "book_flight"
  THEN Create(g.st, t, "book_flight", "collecting_details", EmptyData, "book_ask_details")
  ELSE book_flight_collect(g.st, g.ret,
                           Merge(Merge(Merge(Merge(g.ret.state_data,
                                                   "origin", t.entities.origin),
                                             "destination", t.entities.destination),
                                       "date", t.entities.date),
                                 "passenger_name", t.entities.passenger_name), t)

process_book_flight(S0, t) ==
  book_flight_with(S0, get_workflow_state(S0, t.session_id, t.user_id), t)

\* "Process based on intent": the tail of process_message
route_by_intent(S, t) ==
  CASE t.intent = "check_status"   -> process_booking_check(S, t)
    [] t.intent = "cancel_booking" -> process_cancellation(S, t)
    [] t.intent = "change_flight"  -> process_change_flight(S, t)
    [] t.intent = "seat_upgrade"   -> process_seat_upgrade(S, t)
    [] t.intent = "book_flight"    -> process_book_flight(S, t)
    [] t.intent = "cancellation_policy" ->
         Create(S, t, "policy_inquiry", "showing_policy",
                [k \in {"policy_type"} |-> <<"c","a","n","c","e","l","l","a","t","i","o","n">>], "cancellation_policy")
    [] t.intent = "baggage_info"   -> process_baggage_info(S, t)
    [] t.intent \in informational_intents \ {"cancellation_policy", "baggage_info"} ->
         process_informational(S, t)
    [] t.intent = "greeting" -> Reply(S, "greeting")
    [] t.intent = "help" -> Reply(S, "help")
    [] OTHER -> Reply(S, "unknown_intent")


(***************************************************************************)
(* workflow.py: process_message, the dispatcher.  One evaluation is one    *)
(* invocation; where the source calls process_message from inside itself   *)
(* the result says recurse and the next invocation is a step of its own.   *)
(* rule numbers the rule that produced the result:                         *)
(*   1 out of scope, 2 no active workflow (route by intent), 3 new         *)
(*   booking, 4 task switch, 5 continuation, 6 relevant data, 7 context    *)
(*   switch, 8 informational, 9 exit, 10 resume, 11 resume fell through    *)
(*   to the routing by intent.                                             *)
(***************************************************************************)
StepText ==
  [s \in { "waiting_for_id", "confirm", "waiting_for_new_date", "waiting_for_seat_choice",
           "collecting_details", "showing_details", "showing_policy" } |->
     CASE s = "waiting_for_id"          -> <<"w","a","i","t","i","n","g","_","f","o","r","_","i","d">>
       [] s = "confirm"                 -> <<"c","o","n","f","i","r","m">>
       [] s = "waiting_for_new_date"    -> <<"w","a","i","t","i","n","g","_","f","o","r","_","n","e","w","_","d","a","t","e">>
       [] s = "waiting_for_seat_choice" -> <<"w","a","i","t","i","n","g","_","f","o","r","_","s","e","a","t","_","c","h","o","i","c","e">>
       [] s = "collecting_details"      -> <<"c","o","l","l","e","c","t","i","n","g","_","d","e","t","a","i","l","s">>
       [] s = "showing_details"         -> <<"s","h","o","w","i","n","g","_","d","e","t","a","i","l","s">>
       [] s = "showing_policy"          -> <<"s","h","o","w","i","n","g","_","p","o","l","i","c","y">>]

DigitIn == [m \in Texts |-> HasDigit(m)]

Out(r, rule, handler, switched) ==
  [st |-> r.st, resp |-> r.resp, over |-> r.over, rule |-> rule, handler |-> handler,
   recurse |-> FALSE, switched |-> switched]

\* return self.process_message(nlu_result, user_id, session_id)
Recurse(S, rule, switched) ==
  [st |-> S, resp |-> "", over |-> FALSE, rule |-> rule, handler |-> "process_message",
   recurse |-> TRUE, switched |-> switched]

HandlerName(t) ==
  CASE t.intent = "check_status"   -> "process_booking_check"
    [] t.intent = "cancel_booking" -> "process_cancellation"
    [] t.intent = "change_flight"  -> "process_change_flight"
    [] t.intent = "seat_upgrade"   -> "process_seat_upgrade"
    [] t.intent = "book_flight"    -> "process_book_flight"
    [] t.intent = "baggage_info"   -> "process_baggage_info"
    [] t.intent \in informational_intents \ {"cancellation_policy", "baggage_info"} ->
         "process_informational"
    [] OTHER -> "none"

\* the handler of a workflow type
TypeHandler(workflow_type) ==
  CASE workflow_type = "cancel_booking" -> "process_cancellation"
    [] workflow_type = "change_flight"  -> "process_change_flight"
    [] workflow_type = "seat_upgrade"   -> "process_seat_upgrade"
    [] workflow_type = "check_status"   -> "process_booking_check"
    [] workflow_type = "book_flight"    -> "process_book_flight"
    [] OTHER -> "none"

Invoke(handler, S, t) ==
  CASE handler = "process_cancellation"  -> process_cancellation(S, t)
    [] handler = "process_change_flight" -> process_change_flight(S, t)
    [] handler = "process_seat_upgrade"  -> process_seat_upgrade(S, t)
    [] handler = "process_booking_check" -> process_booking_check(S, t)
    [] handler = "process_book_flight"   -> process_book_flight(S, t)
    [] handler = "process_baggage_info"  -> process_baggage_info(S, t)

\* the flag without its last branch (a booking id at a waiting_for_id step)
relevant_data_provided_without_id(workflow, t) ==
  IF workflow.workflow_type = "change_flight" /\ workflow.current_step = "waiting_for_new_date"
  THEN t.entities.date # <<>> \/ DigitIn[t.msg]
  ELSE IF workflow.workflow_type = "cancel_booking" /\ workflow.current_step = "confirm"
  THEN Has(t.msg, confirm_relevant_words)
  ELSE IF workflow.workflow_type = "book_flight"
          /\ workflow.current_step = "collecting_details"
  THEN \/ t.entities.origin # <<>>
       \/ t.entities.destination # <<>>
       \/ t.entities.date # <<>>
       \/ t.entities.passenger_name # <<>>
       \/ DigitIn[t.msg]
  ELSE FALSE

\* the flag without its first branch (a date at waiting_for_new_date)
relevant_data_provided_without_date(workflow, t) ==
  IF workflow.workflow_type = "change_flight" /\ workflow.current_step = "waiting_for_new_date"
  THEN FALSE
  ELSE IF workflow.workflow_type = "cancel_booking" /\ workflow.current_step = "confirm"
  THEN Has(t.msg, confirm_relevant_words)
  ELSE IF workflow.workflow_type = "book_flight"
          /\ workflow.current_step = "collecting_details"
  THEN \/ t.entities.origin # <<>>
       \/ t.entities.destination # <<>>
       \/ t.entities.date # <<>>
       \/ t.entities.passenger_name # <<>>
       \/ DigitIn[t.msg]
  ELSE /\ Contains(StepText[workflow.current_step], <<"w","a","i","t","i","n","g","_","f","o","r","_","i","d">>)
       /\ t.entities.booking_id # <<>>

relevant_data_provided(workflow, t) ==
  IF workflow.workflow_type = "change_flight" /\ workflow.current_step = "waiting_for_new_date"
  THEN t.entities.date # <<>> \/ DigitIn[t.msg]
  ELSE IF workflow.workflow_type = "cancel_booking" /\ workflow.current_step = "confirm"
  THEN Has(t.msg, confirm_relevant_words)
  ELSE IF workflow.workflow_type = "book_flight"
          /\ workflow.current_step = "collecting_details"
  THEN \/ t.entities.origin # <<>>
       \/ t.entities.destination # <<>>
       \/ t.entities.date # <<>>
       \/ t.entities.passenger_name # <<>>
       \/ DigitIn[t.msg]
  ELSE /\ Contains(StepText[workflow.current_step], <<"w","a","i","t","i","n","g","_","f","o","r","_","i","d">>)
       /\ t.entities.booking_id # <<>>

\* {**nlu_result, 'entities': {'booking_id': booking_id}}
WithBookingId(t, booking_id) ==
  [t EXCEPT !.entities = Entities(booking_id, <<>>, <<>>, <<>>, <<>>)]

\* "Continue with active workflow"
resume_workflow(S, t, workflow, switched) ==
  LET type == workflow.workflow_type
      id == Get(workflow.state_data, "booking_id")
      done == complete_workflow(S, workflow.workflow_id, t.session_id)
  IN IF type \in {"cancel_booking", "change_flight", "seat_upgrade"}
     THEN Out(Invoke(TypeHandler(type), S, t), 10, TypeHandler(type), switched)
     ELSE IF type = "check_status" /\ Has(t.msg, {<<"c","a","n","c","e","l">>})
     THEN Out(process_cancellation(done, WithBookingId(t, id)), 10,
              "process_cancellation", switched)
     ELSE IF type = "check_status" /\ Has(t.msg, {<<"c","h","a","n","g","e">>, <<"m","o","d","i","f","y">>})
     THEN Out(process_change_flight(done, WithBookingId(t, id)), 10,
              "process_change_flight", switched)
     ELSE IF type = "check_status" /\ Has(t.msg, {<<"u","p","g","r","a","d","e">>, <<"s","e","a","t">>})
     THEN Out(process_seat_upgrade(done, WithBookingId(t, id)), 10,
              "process_seat_upgrade", switched)
     ELSE IF type = "check_status" /\ Has(t.msg, {<<"b","a","g","g","a","g","e">>, <<"l","u","g","g","a","g","e">>})
     THEN Out(process_baggage_info(done, t), 10, "process_baggage_info", switched)
     ELSE IF type = "check_status" /\ Has(t.msg, status_closing_words)
     THEN Out(Reply(done, "status_closing"), 10, "none", switched)
     ELSE IF type = "baggage_info" /\ Has(t.msg, {<<"c","a","r","r","y">>, <<"c","a","b","i","n">>})
     THEN Out(Reply(S, "baggage_carry_on"), 10, "none", switched)
     ELSE IF type = "baggage_info" /\ Has(t.msg, {<<"c","h","e","c","k">>, <<"l","u","g","g","a","g","e">>})
     THEN Out(Reply(S, "baggage_checked"), 10, "none", switched)
     ELSE IF type = "baggage_info" /\ Has(t.msg, {<<"p","r","o","h","i","b","i","t","e","d">>, <<"n","o","t"," ","a","l","l","o","w","e","d">>})
     THEN Out(Reply(S, "baggage_prohibited"), 10, "none", switched)
     ELSE IF type = "baggage_info" /\ Has(t.msg, {<<"e","x","c","e","s","s">>, <<"o","v","e","r","w","e","i","g","h","t">>, <<"e","x","t","r","a">>})
     THEN Out(Reply(S, "baggage_excess"), 10, "none", switched)
     ELSE IF type = "baggage_info" /\ Has(t.msg, baggage_closing_words)
     THEN Out(Reply(done, "baggage_closing"), 10, "none", switched)
     ELSE Out(route_by_intent(S, t), 11, HandlerName(t), switched)

\* the rules after the task switch: continuation, relevant data, context
\* switch, informational, exit, resume
after_switch(S, t, workflow, switched) ==
  LET type == workflow.workflow_type
  IN IF /\ Has(t.msg, continue_words)
        /\ type \in {"cancel_booking", "change_flight", "seat_upgrade", "check_status"}
     THEN Out(Invoke(TypeHandler(type), S, t), 5, TypeHandler(type), switched)
     ELSE IF /\ relevant_data_provided(workflow, t)
             /\ type \in {"cancel_booking", "change_flight", "seat_upgrade", "book_flight"}
     THEN Out(Invoke(TypeHandler(type), S, t), 6, TypeHandler(type), switched)
     ELSE IF /\ t.intent \in task_intents
             /\ t.intent # type
             /\ ~Contains(LabelText[type], LabelText[t.intent] \o <<"_">>)
     THEN IF t.entities.booking_id # <<>> \/ Has(t.msg, clear_switch_phrases)
          THEN Recurse(complete_workflow(S, workflow.workflow_id, t.session_id), 7, switched)
          ELSE Out(Reply(S, "disambiguation"), 7, "none", switched)
     ELSE IF t.intent \in informational_intents
     THEN Recurse(S, 8, switched)
     ELSE IF Has(t.msg, exit_words)
     THEN Out(Reply(complete_workflow(S, workflow.workflow_id, t.session_id),
                    "exit_prompt"), 9, "none", switched)
     ELSE resume_workflow(S, t, workflow, switched)

\* the rules for an active workflow, up to the task switch; g: what
\* get_workflow_state returned, and the store it left
dispatch_active(g, t) ==
  LET workflow == g.ret
      S == g.st
      switch == Has(t.msg, switch_words)
  IN IF t.intent = "book_flight" /\ Has(t.msg, new_booking_phrases)
     THEN Recurse(complete_workflow(S, workflow.workflow_id, t.session_id), 3, FALSE)
     ELSE IF switch /\ t.intent \in switch_target_intents
     THEN Recurse(complete_workflow(S, workflow.workflow_id, t.session_id), 4, TRUE)
     ELSE IF switch /\ Has(t.msg, {<<"c","a","n","c","e","l">>})
     THEN Out(process_cancellation(
                complete_workflow(S, workflow.workflow_id, t.session_id), t),
              4, "process_cancellation", TRUE)
     ELSE IF switch /\ Has(t.msg, {<<"c","h","a","n","g","e">>, <<"m","o","d","i","f","y">>})
     THEN Out(process_change_flight(
                complete_workflow(S, workflow.workflow_id, t.session_id), t),
              4, "process_change_flight", TRUE)
     ELSE IF switch /\ Has(t.msg, {<<"u","p","g","r","a","d","e">>, <<"s","e","a","t">>})
     THEN Out(process_seat_upgrade(
                complete_workflow(S, workflow.workflow_id, t.session_id), t),
              4, "process_seat_upgrade", TRUE)
     ELSE IF switch /\ Has(t.msg, {<<"b","o","o","k">>})
     THEN Out(process_book_flight(
                complete_workflow(S, workflow.workflow_id, t.session_id), t),
              4, "process_book_flight", TRUE)
     \* no return at the end of the switch block: the rules below run with
     \* the workflow as read before its completion
     ELSE after_switch(IF switch
                       THEN complete_workflow(S, workflow.workflow_id, t.session_id)
                       ELSE S, t, workflow, switch)

\* g: what get_workflow_state returned, and the store it left
dispatch(g, t) ==
  IF g.ret # None /\ g.ret.status = "active" THEN dispatch_active(g, t)
  ELSE Out(route_by_intent(g.st, t), 2, HandlerName(t), FALSE)

\* the dispatcher reading the workflow state before the out-of-domain test
process_message_reading_first(S0, t) ==
  IF Has(t.msg, irrelevant_patterns)
  THEN Out(Reply(get_workflow_state(S0, t.session_id, t.user_id).st, "out_of_scope"),
           1, "none", FALSE)
  ELSE dispatch(get_workflow_state(S0, t.session_id, t.user_id), t)

process_message(S0, t) ==
  IF Has(t.msg, irrelevant_patterns)
  THEN Out(Reply(S0, "out_of_scope"), 1, "none", FALSE)
  ELSE dispatch(get_workflow_state(S0, t.session_id, t.user_id), t)

(***************************************************************************)
(* Turns.                                                                  *)
(***************************************************************************)
NoTurn == [user_id |-> "", session_id |-> "", intent |-> "", entities |-> NoEntities,
           msg |-> <<>>]

\* rule, handler, resp, switched: of the latest invocation; entry, seen, rows:
\* the first rule that matched in the first invocation of the turn, the
\* workflow that invocation read and the number of workflow rows it found
NoOutcome == [rule |-> 0, handler |-> "none", resp |-> "", switched |-> FALSE,
              entry |-> 0, seen |-> None, rows |-> 0, intent |-> ""]

\* main.py, POST /api/message: the NLU result of a request reaches the engine
Receive(user_id, session_id, intent, utterance) ==
  /\ pc = "idle"
  /\ turns' = turns + 1
  /\ pc' = "dispatch"
  /\ turn' = [user_id |-> user_id, session_id |-> session_id, intent |-> intent,
              entities |-> utterance.entities, msg |-> utterance.msg]
  /\ depth' = 0
  /\ last' = NoOutcome
  /\ UNCHANGED <<solo, inflight, serialized, wf, cache, bookings, call>>

ReceiveMessage(user_id, session_id, intent, utterance) ==
  /\ turns < MaxTurns
  /\ Receive(user_id, session_id, intent, utterance)

\* a request of a conversation about one kind of task
ReceiveTaskMessage(user_id, session_id, intent, utterance) ==
  /\ turns < MaxTaskTurns
  /\ Receive(user_id, session_id, intent, utterance)

\* the workflow the dispatcher reads at the start of an invocation
Seen(S, t) == get_workflow_state(S, t.session_id, t.user_id).ret

\* the end of an invocation that returns r
Return(r) ==
  /\ ~r.over
  /\ SetStore(r.st)
  /\ IF r.recurse /\ depth < MaxDepth
     THEN /\ pc' = "dispatch"
          /\ depth' = depth + 1
          /\ turn' = turn
     ELSE /\ pc' = "idle"
          /\ depth' = 0
          /\ turn' = NoTurn
  /\ last' = [rule |-> r.rule, handler |-> r.handler,
              resp |-> IF r.recurse /\ depth >= MaxDepth
                       THEN "RecursionError" ELSE r.resp,
              switched |-> r.switched,
              entry |-> IF depth > 0 THEN last.entry
                        ELSE IF r.switched THEN 4 ELSE r.rule,
              seen |-> IF depth > 0 THEN last.seen
                       ELSE IF Has(turn.msg, irrelevant_patterns) THEN None
                       ELSE Seen(Store, turn),
              rows |-> IF depth = 0 THEN Len(wf) ELSE last.rows,
              intent |-> turn.intent]

\* one invocation of process_message for the turn in progress
ProcessMessage ==
  /\ pc = "dispatch"
  /\ Return(process_message(Store, turn))
  /\ UNCHANGED <<solo, inflight, serialized, turns, call>>

\* the engine called for a request of one of a user's two sessions; solo
\* follows the same call made on what the session's own turns alone left
ProcessSessionMessage ==
  /\ pc = "dispatch"
  /\ Return(process_message(Store, turn))
  /\ solo' = [solo EXCEPT ![turn.session_id] = process_message(solo[turn.session_id], turn).st]
  /\ UNCHANGED <<inflight, serialized, turns, call>>

(***************************************************************************)
(* Requests run at the same time.  Nothing in workflow.py wraps the read    *)
(* of the workflow state and the write that follows it, so between the     *)
(* statements of one request the statements of another can run.  A request *)
(* is three steps: the read of the dispatcher, the read of the handler,    *)
(* the handler's write.  The requests are those that the dispatcher hands  *)
(* to process_book_flight.                                                 *)
(***************************************************************************)
Workers == { 1, 2 }

RaceSessions == { "s1", "s2" }

\* the tables and the cache of a server that has answered nothing yet
FreshStore == [wf |-> <<>>, cache |-> [s \in RaceSessions |-> NoEntry],
               bookings |-> sample_bookings]

\* requests of a run with several threads
MaxRaceTurns == 3

RaceClients == { <<"user123", "s1">>, <<"user123", "s2">> }

\* pc: idle, arrived, routed, read, done; ret: what the handler's
\* get_workflow_state returned; wrote: the row the handler wrote
NoFlight == [pc |-> "idle", turn |-> NoTurn, ret |-> None, wrote |-> None]

InFlight(w) == inflight[w].pc \in {"arrived", "routed", "read"}

\* a server that takes a session's next request while the previous one runs,
\* whatever the caller promises
Arrive_any_time(w, user_id, session_id, intent, utterance) ==
  /\ pc = "idle"
  /\ turns < MaxRaceTurns
  /\ ~InFlight(w)
  /\ turns' = turns + 1
  /\ inflight' = [inflight EXCEPT ![w] =
                    [pc |-> "arrived",
                     turn |-> [user_id |-> user_id, session_id |-> session_id,
                               intent |-> intent, entities |-> utterance.entities,
                               msg |-> utterance.msg],
                     ret |-> None, wrote |-> None]]
  /\ UNCHANGED <<wf, cache, bookings, pc, turn, depth, last, call, solo, serialized>>

\* main.py, POST /api/message, on thread w
Arrive(w, user_id, session_id, intent, utterance) ==
  /\ pc = "idle"
  /\ turns < MaxRaceTurns
  /\ ~InFlight(w)
  /\ serialized =>
       \A v \in Workers : InFlight(v) => inflight[v].turn.session_id # session_id
  /\ turns' = turns + 1
  /\ inflight' = [inflight EXCEPT ![w] =
                    [pc |-> "arrived",
                     turn |-> [user_id |-> user_id, session_id |-> session_id,
                               intent |-> intent, entities |-> utterance.entities,
                               msg |-> utterance.msg],
                     ret |-> None, wrote |-> None]]
  /\ UNCHANGED <<wf, cache, bookings, pc, turn, depth, last, call, solo, serialized>>

\* process_message up to its call of the handler: the dispatcher reads the
\* workflow state and hands the request to process_book_flight
Dispatch(w) ==
  /\ inflight[w].pc = "arrived"
  /\ process_message(Store, inflight[w].turn).handler = "process_book_flight"
  /\ SetStore(get_workflow_state(Store, inflight[w].turn.session_id,
                                 inflight[w].turn.user_id).st)
  /\ inflight' = [inflight EXCEPT ![w].pc = "routed"]
  /\ UNCHANGED <<pc, turn, turns, depth, last, call, solo, serialized>>

\* workflow = self.get_workflow_state(session_id, user_id) in process_book_flight
ReadState(w) ==
  /\ inflight[w].pc = "routed"
  /\ SetStore(get_workflow_state(Store, inflight[w].turn.session_id,
                                 inflight[w].turn.user_id).st)
  /\ inflight' = [inflight EXCEPT
                    ![w].pc = "read",
                    ![w].ret = get_workflow_state(Store, inflight[w].turn.session_id,
                                                  inflight[w].turn.user_id).ret]
  /\ UNCHANGED <<pc, turn, turns, depth, last, call, solo, serialized>>

\* r: what the handler returns; wrote: the row it left as the newest of
\* the table, if it wrote one
WriteWith(w, r) ==
  /\ ~r.over
  /\ SetStore(r.st)
  /\ inflight' = [inflight EXCEPT
                    ![w].pc = "done",
                    ![w].wrote = IF r.st.wf = wf \/ Len(r.st.wf) = 0 THEN None
                                 ELSE r.st.wf[Len(r.st.wf)]]

\* the rest of process_book_flight: it works on the workflow it read and
\* writes to the tables as they are now
WriteState(w) ==
  /\ inflight[w].pc = "read"
  /\ WriteWith(w, book_flight_with(Store, [st |-> Store, ret |-> inflight[w].ret],
                                   inflight[w].turn))
  /\ UNCHANGED <<pc, turn, turns, depth, last, call, solo, serialized>>

\* the passing of the cache's time to live (cache.py 22-25), in the tables
\* and in what the session's turns alone left
SessionCacheExpire(session_id) ==
  /\ cache[session_id].present
  /\ ~cache[session_id].expired
  /\ cache' = [cache EXCEPT ![session_id].expired = TRUE]
  /\ solo' = [solo EXCEPT ![session_id].cache =
                 IF @[session_id].present
                 THEN [@ EXCEPT ![session_id].expired = TRUE] ELSE @]
  /\ UNCHANGED <<wf, bookings, pc, turn, turns, depth, last, call, inflight, serialized>>


(***************************************************************************)
(* Specifications.                                                         *)
(***************************************************************************)
Init ==
  /\ wf = <<>>
  /\ cache = [s \in Sessions |-> NoEntry]
  /\ bookings = sample_bookings
  /\ pc = "idle"
  /\ turn = NoTurn
  /\ turns = 0
  /\ depth = 0
  /\ last = NoOutcome
  /\ call = NoCall
  /\ solo = [s \in Sessions |-> FreshStore]
  /\ inflight = [w \in Workers |-> NoFlight]
  /\ serialized = TRUE

Next ==
  \/ \E c \in Clients, intent \in Intents, u \in Utterances :
        ReceiveMessage(c[1], c[2], intent, u)
  \/ ProcessMessage
  \/ \E s \in Sessions : CacheExpire(s)

Spec == Init /\ [][Next]_vars

StoreNext ==
  \/ \E id \in 1..MaxStoreIds, s \in Sessions, u \in Users,
        step \in StoreSteps, status \in {"active", "completed"} :
        SaveWorkflow(id, s, u, step, status)
  \/ \E id \in 1..MaxStoreIds, s \in Sessions : CompleteWorkflow(id, s)
  \/ \E s \in Sessions, u \in Users : GetActiveWorkflow(s, u)
  \/ \E s \in Sessions : CacheExpire(s)

StoreSpec == Init /\ [][StoreNext]_vars

\* calls of the booking lookup, and calls of the date validator on the day
\* of this run, on a day whose 365th day after is a 29th of February, on a 29th
\* of February and on the last day of a year; the texts: the days around each
\* of these days and a year after, days and months that do not exist, other
\* formats
CallNext ==
  \/ \E id \in {<<"B","K","0","0","1">>, <<"B","K","0","0","3">>, <<"B","K","0","0","9">>}, u \in Users \cup {"", "user789"} :
        GetBooking(id, u)
  \/ \E now \in {today, <<2027, 3, 1>>, <<2028, 2, 29>>, <<2027, 12, 31>>},
        d \in { <<"2","0","2","6","-","1","1","-","0","1">>, <<"2","0","2","6","-","1","1","-","0","2">>, <<"2","0","2","6","-","1","1","-","0","3">>, <<"2","0","2","7","-","0","6","-","1","5">>, <<"2","0","2","7","-","1","-","5">>,
                <<"2","0","2","7","-","1","1","-","0","2">>, <<"2","0","2","7","-","1","1","-","0","3">>, <<"2","0","2","7","-","0","2","-","2","8">>, <<"2","0","2","7","-","0","2","-","2","9">>, <<"2","0","2","7","-","0","3","-","0","1">>,
                <<"2","0","2","7","-","0","3","-","0","2">>, <<"2","0","2","7","-","1","2","-","3","1">>, <<"2","0","2","8","-","0","1","-","0","1">>, <<"2","0","2","8","-","0","2","-","2","9">>, <<"2","0","2","8","-","0","3","-","0","1">>,
                <<"2","0","2","8","-","1","2","-","3","0">>, <<"2","0","2","8","-","1","2","-","3","1">>, <<"2","0","2","9","-","0","2","-","2","8">>, <<"2","0","2","9","-","0","2","-","2","9">>, <<"2","0","2","9","-","0","3","-","0","1">>,
                <<"2","0","2","7","-","0","4","-","3","1">>, <<"2","0","2","7","-","1","3","-","0","1">>, <<"2","0","2","7","-","0","0","-","1","0">>, <<"2","0","2","7","-","0","6","-","0","0">>, <<"2","0","2","7","/","0","1","/","1","5">>,
                <<"t","o","m","o","r","r","o","w">> } :
        ValidateDate(now, d)

CallSpec == Init /\ [][CallNext]_vars

\* conversations that start workflows and abandon them
ExitNext ==
  \/ \E c \in Clients, intent \in Intents, u \in ExitUtterances :
        ReceiveMessage(c[1], c[2], intent, u)
  \/ ProcessMessage
  \/ \E s \in Sessions : CacheExpire(s)

ExitSpec == Init /\ [][ExitNext]_vars

\* conversations of some clients about one task: who sends the turns, and the
\* intents and the utterances the turns are drawn from
ScenarioNext(clients, intents, utterances) ==
  \/ \E c \in clients, intent \in intents, u \in utterances :
        ReceiveTaskMessage(c[1], c[2], intent, u)
  \/ ProcessMessage
  \/ \E s \in Sessions : CacheExpire(s)

\* conversations about cancelling, changing and upgrading a booking
TaskSpec == Init /\ [][ScenarioNext(Clients, TaskIntents, TaskUtterances)]_vars

\* conversations about a new booking
BookSpec == Init /\ [][ScenarioNext(Clients, BookIntents, BookUtterances)]_vars

\* two users who present the same session id, about cancelling, changing and
\* upgrading a booking
SharedSpec ==
  Init /\ [][ScenarioNext({ <<"user123", "s1">>, <<"user456", "s1">> },
                           TaskIntents, TaskUtterances)]_vars

\* conversations that fill in a booking with details that fail a check
ValidateSpec == Init /\ [][ScenarioNext(Clients, BookIntents, ValidateUtterances)]_vars

\* conversations about a seat upgrade
SeatSpec ==
  Init /\ [][ScenarioNext(Clients, {"seat_upgrade", "cancel_booking", "greeting"}, SeatUtterances)]_vars

\* conversations that ask for the list of bookings
ListSpec ==
  Init /\ [][ScenarioNext(Clients, {"cancel_booking", "change_flight", "greeting"}, ListUtterances)]_vars

\* conversations that reach the confirmation of a cancellation
ConfirmSpec ==
  Init /\ [][ScenarioNext(Clients,
                           {"cancel_booking", "change_flight", "cancellation_policy", "greeting"},
                           ConfirmUtterances)]_vars

\* requests of two sessions run by two threads of the server; the caller
\* either waits for a session's answer before its next request or does not
RaceInit ==
  /\ wf = <<>>
  /\ cache = [s \in RaceSessions |-> NoEntry]
  /\ bookings = sample_bookings
  /\ pc = "idle"
  /\ turn = NoTurn
  /\ turns = 0
  /\ depth = 0
  /\ last = NoOutcome
  /\ call = NoCall
  /\ solo = [s \in RaceSessions |-> FreshStore]
  /\ inflight = [w \in Workers |-> NoFlight]
  /\ serialized \in BOOLEAN

RaceNext ==
  \/ \E w \in Workers, c \in RaceClients, u \in RaceUtterances :
        Arrive(w, c[1], c[2], "book_flight", u)
  \/ \E w \in Workers : Dispatch(w)
  \/ \E w \in Workers : ReadState(w)
  \/ \E w \in Workers : WriteState(w)

RaceSpec == RaceInit /\ [][RaceNext]_vars

\* whole turns of one user's two sessions, in any order
SessionNext ==
  \/ \E c \in RaceClients, i \in {"book_flight", "cancel_booking"}, u \in SessionUtterances :
        turns < MaxRaceTurns /\ Receive(c[1], c[2], i, u)
  \/ ProcessSessionMessage
  \/ \E s \in RaceSessions : SessionCacheExpire(s)

\* the caller waits for each answer
SessionInit == RaceInit /\ serialized

SessionSpec == SessionInit /\ [][SessionNext]_vars

TypeOK == Len(wf) <= MaxWorkflows


(***************************************************************************)
(* Properties.  Vocabulary first: the rows of a client, and what the       *)
(* invocation of process_message about to run finds.                       *)
(***************************************************************************)
ActiveRows(user_id, session_id) ==
  { i \in 1..Len(wf) : /\ wf[i].user_id = user_id
                       /\ wf[i].session_id = session_id
                       /\ wf[i].status = "active" }

IsCompleted(rows, workflow_id) ==
  \E i \in 1..Len(rows) : rows[i].workflow_id = workflow_id /\ rows[i].status = "completed"

\* a step that is one invocation of process_message
Invocation == pc = "dispatch" /\ (pc' = "idle" \/ depth' = depth + 1)

\* the workflow the invocation about to run reads
Current == Seen(Store, turn)

Rule1 == ContainsAny(lower(turn.msg), irrelevant_patterns)
Rule2 == Current = None \/ Current.status # "active"
Rule3 == turn.intent = "book_flight" /\ ContainsAny(lower(turn.msg), new_booking_phrases)
Rule4 == ContainsAny(lower(turn.msg), {<<"s","w","i","t","c","h">>, <<"c","h","a","n","g","e"," ","t","o">>, <<"d","o">>, <<"s","t","a","r","t">>})
Rule5 == ContainsAny(lower(turn.msg), continue_words)
Rule6 == relevant_data_provided(Current, turn)

Failures == { "RecursionError", "AttributeError" }

\* C1: after every turn, each (user, session) has at most one workflow row
\* with status active
C1_OneActivePerSession ==
  pc = "idle" => \A c \in Clients : Cardinality(ActiveRows(c[1], c[2])) <= 1

\* C2: every turn ends with a response (no failure), and process_message never
\* enters itself again without the workflow rows having changed
C2_TurnTerminates ==
  [][Invocation =>
       /\ pc' = "dispatch" => wf' # wf
       /\ pc' = "idle" => last'.resp \notin Failures]_vars

\* C3: a turn that reaches the informational rule with a workflow active is
\* answered, and leaves that workflow as it was (same id, type, step, data,
\* status active) and the number of workflow rows unchanged
C3_InformationalAnswered ==
  (pc = "idle" /\ last.entry = 8) =>
     /\ last.resp \notin Failures
     /\ \E i \in 1..Len(wf) : wf[i] = last.seen
     /\ Len(wf) = last.rows

\* C4: right after complete_workflow(w, s) for the workflow w that
\* get_workflow_state returned for session s, get_workflow_state for that
\* session returns none
C4_NoneAfterComplete ==
  call.op = "complete" =>
     \A u \in call.readers : get_workflow_state(Store, call.session_id, u).ret = None

\* C5: with one (session, user) only, what get_workflow_state returned is what
\* the query of the table for the newest active row returns
C5_GetEqualsQuery ==
  (call.op = "get" /\ call.users \subseteq {call.user_id}) =>
     call.ret = SelectActive(wf, call.session_id, call.user_id)

\* C6: get_workflow_state(session, user) never returns a workflow of another user
C6_OwnWorkflowOnly ==
  (call.op = "get" /\ call.ret # None) => call.ret.user_id = call.user_id

\* data relevant to the current step, as C7 lists it
C7_Relevant(workflow, t) ==
  \/ /\ workflow.workflow_type = "change_flight"
     /\ workflow.current_step = "waiting_for_new_date"
     /\ t.entities.date # <<>>
  \/ /\ workflow.workflow_type = "cancel_booking"
     /\ workflow.current_step = "confirm"
     /\ ContainsAny(lower(t.msg), {<<"y","e","s">>, <<"n","o">>})
  \/ /\ workflow.current_step = "waiting_for_id"
     /\ t.entities.booking_id # <<>>
  \/ /\ workflow.workflow_type = "book_flight"
     /\ workflow.current_step = "collecting_details"
     /\ \/ t.entities.origin # <<>>
        \/ t.entities.destination # <<>>
        \/ t.entities.date # <<>>
        \/ t.entities.passenger_name # <<>>

C8_SwitchOnThreePhrases ==
  [][(Invocation /\ ~Rule1 /\ ~Rule2 /\ ~Rule3) =>
       /\ last'.switched <=>
            ContainsAny(lower(turn.msg), {<<"s","w","i","t","c","h">>, <<"c","h","a","n","g","e"," ","t","o">>, <<"s","t","a","r","t">>})
       /\ last'.switched => IsCompleted(wf', Current.workflow_id)]_vars

C10_AutoSwitch ==
  (pc = "idle" /\ last.entry = 7 /\ last.resp # "disambiguation") =>
     /\ last.rule = 2
     /\ IsCompleted(wf, last.seen.workflow_id)
     /\ \A i \in ActiveRows(last.seen.user_id, last.seen.session_id) :
           wf[i].workflow_type = last.intent

\* the first invocation of a turn
FirstInvocation == Invocation /\ depth = 0

\* C11: a turn with intent book_flight and new-booking phrasing that finds a
\* workflow active takes the new-booking rule, and when the turn is over the
\* workflow it found is completed, the last invocation was the routing for no
\* active workflow to process_book_flight, and the only active workflow of
\* the session is a new book_flight row at collecting_details with no data
C11_NewBooking ==
  /\ [][(FirstInvocation /\ ~Rule1 /\ ~Rule2 /\ Rule3) => last'.entry = 3]_vars
  /\ [](( pc = "idle" /\ last.entry = 3) =>
          /\ last.rule = 2
          /\ last.handler = "process_book_flight"
          /\ IsCompleted(wf, last.seen.workflow_id)
          /\ \E i \in 1..Len(wf) :
                /\ ActiveRows(last.seen.user_id, last.seen.session_id) = {i}
                /\ wf[i].workflow_id > last.rows
                /\ wf[i].workflow_type = "book_flight"
                /\ wf[i].current_step = "collecting_details"
                /\ wf[i].state_data = EmptyData)

\* a workflow of another type was replaced by a new booking
C11_Witness ==
  /\ pc = "idle"
  /\ last.entry = 3
  /\ last.seen.workflow_type = "cancel_booking"
  /\ Len(wf) = last.rows + 1
  /\ wf[Len(wf)].workflow_type = "book_flight"
  /\ wf[Len(wf)].status = "active"

ActiveIn(rows, user_id, session_id) ==
  { i \in 1..Len(rows) : /\ rows[i].user_id = user_id
                         /\ rows[i].session_id = session_id
                         /\ rows[i].status = "active" }

Rule7 == /\ turn.intent \in {"cancel_booking", "check_status", "change_flight", "seat_upgrade"}
         /\ turn.intent # Current.workflow_type
Rule8 == turn.intent \in informational_intents

\* the abandonment phrases as C12 lists them
AbandonPhrases == { <<"e","x","i","t">>, <<"q","u","i","t">>, <<"s","t","o","p">>, <<"s","t","a","r","t"," ","o","v","e","r">>, <<"f","o","r","g","e","t"," ","i","t">> }

\* a turn that abandons: a workflow is active, the text holds one of the
\* phrases, and no earlier rule applies by intent or by relevant data (the
\* switch rule with a task intent counts as applying by intent)
C12_Abandons ==
  /\ FirstInvocation
  /\ ~Rule1 /\ ~Rule2 /\ ~Rule3
  /\ ~(Rule4 /\ turn.intent \in switch_target_intents)
  /\ ~Rule5 /\ ~Rule6 /\ ~Rule7 /\ ~Rule8
  /\ ContainsAny(lower(turn.msg), AbandonPhrases)

\* C12: a turn that abandons completes the active workflow, answers with the
\* what-next prompt, and leaves no workflow of the session active
C12_AbandonLeavesNoneActive ==
  [][C12_Abandons =>
       /\ pc' = "idle"
       /\ last'.resp = "exit_prompt"
       /\ IsCompleted(wf', Current.workflow_id)
       /\ ActiveIn(wf', turn.user_id, turn.session_id) = {}]_vars

\* the same, for sessions with one active row only
C12_AbandonOfOnlyWorkflow ==
  [][(C12_Abandons /\ Cardinality(ActiveRows(turn.user_id, turn.session_id)) = 1) =>
       /\ pc' = "idle"
       /\ last'.resp = "exit_prompt"
       /\ IsCompleted(wf', Current.workflow_id)
       /\ ActiveIn(wf', turn.user_id, turn.session_id) = {}]_vars

Rule9 == ContainsAny(lower(turn.msg), exit_words)

\* the handler of each workflow type
OwnHandler(workflow_type) ==
  CASE workflow_type = "cancel_booking" -> "process_cancellation"
    [] workflow_type = "change_flight"  -> "process_change_flight"
    [] workflow_type = "seat_upgrade"   -> "process_seat_upgrade"
    [] workflow_type = "book_flight"    -> "process_book_flight"
    [] workflow_type = "check_status"   -> "process_booking_check"
    [] workflow_type = "baggage_info"   -> "process_baggage_info"
    [] OTHER -> "process_informational"

\* C13: with a workflow active and none of rules 1-9 matching, the turn is
\* handled by the handler of the workflow's type, not by the routing for no
\* active workflow, and no workflow row is added
C13_ResumeOwnHandler ==
  [][(FirstInvocation /\ ~Rule1 /\ ~Rule2 /\ ~Rule3 /\ ~Rule4 /\ ~Rule5 /\ ~Rule6
        /\ ~Rule7 /\ ~Rule8 /\ ~Rule9) =>
       /\ pc' = "idle"
       /\ last'.rule = 10
       /\ last'.handler = OwnHandler(Current.workflow_type)
       /\ Len(wf') = Len(wf)]_vars

\* C14: an invocation for a text with an out-of-domain keyword ends the turn
\* with the out-of-scope response and leaves the workflow rows, the cache
\* and the bookings as they were, whatever the intent and the workflows
C14_OutOfScopeTouchesNothing ==
  [][(Invocation /\ Rule1) =>
       /\ pc' = "idle"
       /\ last'.resp = "out_of_scope"
       /\ wf' = wf
       /\ cache' = cache
       /\ bookings' = bookings]_vars

\* an out-of-scope turn arrived while a workflow was active and its cache
\* entry had expired (any read through get_workflow_state would drop it)
C14_Witness ==
  /\ pc = "idle"
  /\ last.resp = "out_of_scope"
  /\ last.intent = "cancel_booking"
  /\ ActiveRows("user123", "s1") # {}
  /\ cache["s1"].present
  /\ cache["s1"].expired

\* the only active workflow of the turn's session is a cancel_booking
\* workflow at this step, and it is the one the dispatcher reads
C15_CancelAt(step) ==
  /\ Current # None
  /\ Current.workflow_type = "cancel_booking"
  /\ Current.current_step = step
  /\ \E i \in 1..Len(wf) : wf[i] = Current /\ ActiveRows(turn.user_id, turn.session_id) = {i}

\* the booking is the user's and confirmed
C15_Confirmed(rows, booking_id, user_id) ==
  \E i \in 1..Len(rows) : /\ rows[i].booking_id = booking_id
                          /\ rows[i].user_id = user_id
                          /\ rows[i].status = "confirmed"

\* the workflow row with this id, after the step
C15_RowAfter(workflow_id, step, state_data, status) ==
  \E i \in 1..Len(wf') : /\ wf'[i].workflow_id = workflow_id
                         /\ wf'[i].workflow_type = "cancel_booking"
                         /\ wf'[i].current_step = step
                         /\ wf'[i].state_data = state_data
                         /\ wf'[i].status = status

\* C15: (1) with no workflow active, a cancel_booking turn without an id
\* creates a workflow at waiting_for_id; (2) at waiting_for_id a turn carrying
\* the id of a confirmed booking b of the user moves it to confirm with
\* state_data.booking_id = b; (3) at confirm the reply "yes" completes the
\* workflow and cancels b; (4) the reply "no" completes it and b stays
\* confirmed.  (2)-(4) whatever the intent of the reply.
C15_CancelFlow ==
  [][FirstInvocation /\ ~Rule1 =>
       /\ ( /\ ActiveRows(turn.user_id, turn.session_id) = {}
            /\ turn.intent = "cancel_booking"
            /\ turn.entities.booking_id = <<>> ) =>
              /\ pc' = "idle"
              /\ Len(wf') = Len(wf) + 1
              /\ wf'[Len(wf')].workflow_type = "cancel_booking"
              /\ wf'[Len(wf')].current_step = "waiting_for_id"
              /\ wf'[Len(wf')].status = "active"
              /\ ActiveIn(wf', turn.user_id, turn.session_id) = {Len(wf')}
       /\ ( /\ C15_CancelAt("waiting_for_id")
            /\ ~Rule3 /\ ~Rule4
            /\ C15_Confirmed(bookings, turn.entities.booking_id, turn.user_id) ) =>
              /\ pc' = "idle"
              /\ C15_RowAfter(Current.workflow_id, "confirm",
                              BookingIdData(turn.entities.booking_id), "active")
              /\ Len(wf') = Len(wf)
              /\ bookings' = bookings
       /\ ( /\ C15_CancelAt("confirm")
            /\ C15_Confirmed(bookings, Get(Current.state_data, "booking_id"), turn.user_id)
            /\ lower(turn.msg) = <<"y","e","s">> ) =>
              /\ pc' = "idle"
              /\ last'.resp = "cancel_done"
              /\ IsCompleted(wf', Current.workflow_id)
              /\ ActiveIn(wf', turn.user_id, turn.session_id) = {}
              /\ get_booking(bookings', Get(Current.state_data, "booking_id"),
                             turn.user_id).status = "cancelled"
       /\ ( /\ C15_CancelAt("confirm")
            /\ C15_Confirmed(bookings, Get(Current.state_data, "booking_id"), turn.user_id)
            /\ lower(turn.msg) = <<"n","o">> ) =>
              /\ pc' = "idle"
              /\ last'.resp = "cancel_kept"
              /\ IsCompleted(wf', Current.workflow_id)
              /\ ActiveIn(wf', turn.user_id, turn.session_id) = {}
              /\ bookings' = bookings]_vars

\* the three turns from nothing: asked for the id, got BK001, got "yes"
C15_Witness ==
  /\ pc = "idle"
  /\ turns = 3
  /\ Len(wf) = 1
  /\ wf[1].workflow_type = "cancel_booking"
  /\ wf[1].status = "completed"
  /\ wf[1].state_data = BookingIdData(<<"B","K","0","0","1">>)
  /\ last.seen.current_step = "confirm"
  /\ last.resp = "cancel_done"
  /\ get_booking(bookings, <<"B","K","0","0","1">>, "user123").status = "cancelled"

\* the responses of the branches that call cancel_booking, change_flight and
\* upgrade_seat of the airline API, with the workflow type and step of each
BackendCalls ==
  { <<"cancel_done", "cancel_booking", "confirm">>,
    <<"cancel_failed", "cancel_booking", "confirm">>,
    <<"change_done", "change_flight", "waiting_for_new_date">>,
    <<"change_failed", "change_flight", "waiting_for_new_date">>,
    <<"upgrade_done", "seat_upgrade", "waiting_for_seat_choice">>,
    <<"upgrade_failed", "seat_upgrade", "waiting_for_seat_choice">> }

\* a row that is completed stays completed
CompletedForGood ==
  \A i \in 1..Len(wf) : wf[i].status = "completed" => IsCompleted(wf', wf[i].workflow_id)

\* C16: an invocation in which a handler calls cancel_booking, change_flight
\* or upgrade_seat ends the turn with the workflow it worked on completed,
\* whether the call succeeded or failed; and no completed workflow becomes
\* active again, so the call is not repeated for it
C16_BackendCallCompletes ==
  [][/\ CompletedForGood
     /\ \A c \in BackendCalls :
          (Invocation /\ last'.resp = c[1]) =>
             /\ pc' = "idle"
             /\ \E i \in ActiveRows(turn.user_id, turn.session_id) :
                   /\ wf[i].workflow_type = c[2]
                   /\ wf[i].current_step = c[3]
                   /\ IsCompleted(wf', wf[i].workflow_id)]_vars

\* cancel_booking failed (the booking had been cancelled before) and the
\* workflow that asked for it is completed
C16_Witness ==
  /\ pc = "idle"
  /\ last.resp = "cancel_failed"
  /\ last.seen.workflow_type = "cancel_booking"
  /\ IsCompleted(wf, last.seen.workflow_id)
  /\ ActiveRows("user123", "s1") = {}

BookingTasks == { "cancel_booking", "change_flight", "seat_upgrade" }

\* the turn carries a booking id that no booking of the user has
C17_ForeignId ==
  /\ turn.entities.booking_id # <<>>
  /\ ~\E i \in 1..Len(bookings) : /\ bookings[i].booking_id = turn.entities.booking_id
                                  /\ bookings[i].user_id = turn.user_id

C18_BadDateKeepsStep ==
  [][( /\ FirstInvocation
       /\ ~Rule1 /\ ~Rule2 /\ ~Rule3 /\ ~Rule4
       /\ Current.workflow_type = "change_flight"
       /\ Current.current_step = "waiting_for_new_date"
       /\ turn.entities.date # <<>>
       /\ ~validate_date(turn.entities.date)[1] ) =>
         /\ pc' = "idle"
         /\ last'.resp = validate_date(turn.entities.date)[2]
         /\ last'.handler = "process_change_flight"
         /\ wf' = wf
         /\ \E i \in 1..Len(wf') : wf'[i] = Current
         /\ bookings' = bookings]_vars

\* a date in the past was refused and the workflow still waits for a date
C18_Witness ==
  /\ pc = "idle"
  /\ last.resp = "date_in_past"
  /\ last.seen.workflow_type = "change_flight"
  /\ last.seen.current_step = "waiting_for_new_date"
  /\ \E i \in 1..Len(wf) : wf[i] = last.seen /\ wf[i].status = "active"
  /\ bookings = sample_bookings

BookSlots == { "origin", "destination", "date", "passenger_name" }

\* a continuing turn of a booking: the dispatcher reads an active book_flight
\* workflow, rules 1-4 do not match, and the invocation ends the turn in
\* process_book_flight
BookContinues ==
  /\ FirstInvocation
  /\ ~Rule1 /\ ~Rule2 /\ ~Rule3 /\ ~Rule4
  /\ Current.workflow_type = "book_flight"
  /\ pc' = "idle"
  /\ last'.handler = "process_book_flight"

\* the value of a slot after the merge: the turn's entity if there is one,
\* otherwise the value the workflow held
Merged(k) ==
  IF turn.entities[k] # <<>> THEN turn.entities[k] ELSE Get(Current.state_data, k)

\* the slots the validation of a complete set refuses: the first failing one
\* in the order date, name, origin, destination, then both airports if equal
Refused ==
  IF ~validate_date(Merged("date"))[1] THEN {"date"}
  ELSE IF ~validate_passenger_name(Merged("passenger_name"))[1] THEN {"passenger_name"}
  ELSE IF ~validate_airport_code(Merged("origin"))[1] THEN {"origin"}
  ELSE IF ~validate_airport_code(Merged("destination"))[1] THEN {"destination"}
  ELSE IF upper(Merged("origin")) = upper(Merged("destination"))
  THEN {"origin", "destination"}
  ELSE {}

\* C19 as stated: after every continuing turn each slot of the workflow's
\* state_data holds the turn's entity if present, otherwise its prior value
C19_SlotsOverwriteOrRetain ==
  [][BookContinues =>
       \E i \in 1..Len(wf') :
          /\ wf'[i].workflow_id = Current.workflow_id
          /\ \A k \in BookSlots : Get(wf'[i].state_data, k) = Merged(k)]_vars

\* C19 amended: the handler works on the merge (entity if present, otherwise
\* the prior value).  While a slot is missing the merge is saved as the
\* workflow's state_data; when all four are there and one is refused, the
\* merge is saved with the refused slots cleared and the others retained;
\* when none is refused the booking is created from the four merged values
C19_MergeThenValidate ==
  [][BookContinues =>
       IF (\E k \in BookSlots : Merged(k) = <<>>) \/ Refused # {}
       THEN /\ bookings' = bookings
            /\ \E i \in 1..Len(wf') :
                  /\ wf'[i].workflow_id = Current.workflow_id
                  /\ wf'[i].status = "active"
                  /\ wf'[i].current_step = "collecting_details"
                  /\ \A k \in BookSlots :
                        Get(wf'[i].state_data, k) =
                          IF (\A s \in BookSlots : Merged(s) # <<>>) /\ k \in Refused
                          THEN <<>> ELSE Merged(k)
       ELSE /\ Len(bookings') = Len(bookings) + 1
            /\ bookings'[Len(bookings')].origin = Merged("origin")
            /\ bookings'[Len(bookings')].destination = Merged("destination")
            /\ bookings'[Len(bookings')].departure_date = Merged("date")
            /\ bookings'[Len(bookings')].passenger_name = Merged("passenger_name")
            /\ IsCompleted(wf', Current.workflow_id)]_vars

\* origin and destination came in one turn, date and name in the next, and
\* the booking made from them holds all four
C19_Witness ==
  /\ pc = "idle"
  /\ turns = 3
  /\ last.resp = "book_done"
  /\ Get(last.seen.state_data, "origin") = <<"J","F","K">>
  /\ Get(last.seen.state_data, "destination") = <<"L","A","X">>
  /\ Get(last.seen.state_data, "date") = <<>>
  /\ Len(bookings) = Len(sample_bookings) + 1
  /\ bookings[Len(bookings)].origin = <<"J","F","K">>
  /\ bookings[Len(bookings)].destination = <<"L","A","X">>
  /\ bookings[Len(bookings)].departure_date = <<"2","0","2","7","-","0","2","-","2","0">>
  /\ bookings[Len(bookings)].passenger_name = <<"A","n","n"," ","L","e","e">>

\* the value of a slot after the merge into the state_data of this row
MergedInto(row, k) ==
  IF turn.entities[k] # <<>> THEN turn.entities[k] ELSE Get(row.state_data, k)

\* C20: an invocation that adds a booking adds exactly one, for an active
\* book_flight workflow of the session whose merged slots are all present,
\* pass their validators and have different airports, and completes that
\* workflow; a completed workflow never becomes active again, so no
\* workflow gets a second booking; and a continuing turn whose merged
\* airports are valid and equal changes no booking
C20_CreateOnceWhenValid ==
  [][/\ CompletedForGood
     /\ (Invocation /\ bookings' # bookings) =>
          /\ Len(bookings') = Len(bookings) + 1
          /\ SubSeq(bookings', 1, Len(bookings)) = bookings
          /\ \E i \in ActiveRows(turn.user_id, turn.session_id) :
                /\ wf[i].workflow_type = "book_flight"
                /\ \A k \in BookSlots : MergedInto(wf[i], k) # <<>>
                /\ validate_date(MergedInto(wf[i], "date"))[1]
                /\ validate_passenger_name(MergedInto(wf[i], "passenger_name"))[1]
                /\ validate_airport_code(MergedInto(wf[i], "origin"))[1]
                /\ validate_airport_code(MergedInto(wf[i], "destination"))[1]
                /\ upper(MergedInto(wf[i], "origin")) # upper(MergedInto(wf[i], "destination"))
                /\ IsCompleted(wf', wf[i].workflow_id)
     /\ ( /\ BookContinues
          /\ Merged("origin") # <<>>
          /\ validate_airport_code(Merged("origin"))[1]
          /\ Merged("origin") = Merged("destination") ) =>
            bookings' = bookings]_vars

\* a booking was made in the third turn, and the fourth turn, again about a
\* new booking, started a new workflow and made no second booking
C20_Witness ==
  /\ pc = "idle"
  /\ turns = 4
  /\ Len(bookings) = Len(sample_bookings) + 1
  /\ Len(wf) = 2
  /\ wf[1].workflow_type = "book_flight" /\ wf[1].status = "completed"
  /\ wf[2].workflow_type = "book_flight" /\ wf[2].status = "active"
  /\ last.resp = "book_ask_details"

\* equal airports were refused with date and name in place
C20_SameAirportsRefused ==
  /\ pc = "idle"
  /\ last.resp = "book_same_airports"
  /\ bookings = sample_bookings

\* a continuing book_flight turn after whose merge all four slots are present
\* and one of the checks fails
BookRefuses ==
  /\ BookContinues
  /\ \A k \in BookSlots : Merged(k) # <<>>
  /\ Refused # {}

\* the message of the first failing check
RefusalText ==
  IF ~validate_date(Merged("date"))[1] THEN validate_date(Merged("date"))[2]
  ELSE IF ~validate_passenger_name(Merged("passenger_name"))[1]
  THEN validate_passenger_name(Merged("passenger_name"))[2]
  ELSE IF ~validate_airport_code(Merged("origin"))[1]
  THEN validate_airport_code(Merged("origin"))[2]
  ELSE IF ~validate_airport_code(Merged("destination"))[1]
  THEN validate_airport_code(Merged("destination"))[2]
  ELSE "book_same_airports"

\* the slots of the workflow that hold nothing after the turn
ClearedSlots ==
  { k \in BookSlots :
      \E i \in 1..Len(wf') : /\ wf'[i].workflow_id = Current.workflow_id
                             /\ Get(wf'[i].state_data, k) = <<>> }

\* C21 as stated: a failing check clears one slot, the offending one, and
\* every other slot keeps its value
C21_OneSlotCleared ==
  [][BookRefuses => Cardinality(ClearedSlots) = 1]_vars

\* C21 amended: the checks run in the order date, name, origin, destination,
\* different airports; the answer is the message of the first failing check;
\* that check's slot is cleared, both origin and destination when the
\* airports are equal; every other slot keeps its merged value whether or
\* not it would pass its own check; the workflow stays active at
\* collecting_details and no booking is made
C21_FirstFailingCheck ==
  [][BookRefuses =>
       /\ last'.resp = RefusalText
       /\ bookings' = bookings
       /\ ClearedSlots = Refused
       /\ \E i \in 1..Len(wf') :
             /\ wf'[i].workflow_id = Current.workflow_id
             /\ wf'[i].status = "active"
             /\ wf'[i].current_step = "collecting_details"
             /\ \A k \in BookSlots \ Refused :
                   Get(wf'[i].state_data, k) = Merged(k)]_vars

\* the date was refused and cleared while a name and an origin that do not
\* validate stayed in the workflow
C21_Witness ==
  /\ pc = "idle"
  /\ last.resp = "date_in_past"
  /\ last.handler = "process_book_flight"
  /\ \E i \in 1..Len(wf) :
        /\ wf[i].workflow_id = last.seen.workflow_id
        /\ wf[i].status = "active"
        /\ wf[i].current_step = "collecting_details"
        /\ Get(wf[i].state_data, "date") = <<>>
        /\ Get(wf[i].state_data, "passenger_name") = <<"R","2">>
        /\ Get(wf[i].state_data, "origin") = <<"J","1">>
        /\ Get(wf[i].state_data, "destination") = <<"J","1">>

\* the seats in the list of available seats the workflow row holds
Listed(row) ==
  { Get(row.state_data, "available_seats")[n] :
      n \in 1..Len(Get(row.state_data, "available_seats")) }

\* the bookings whose seat the step changes
SeatChanged ==
  { j \in 1..Len(bookings) :
      j <= Len(bookings') /\ bookings'[j].seat_number # bookings[j].seat_number }

\* the invocation reads a seat_upgrade workflow waiting for the choice of seat
AtSeatChoice ==
  /\ FirstInvocation
  /\ ~Rule2
  /\ Current.workflow_type = "seat_upgrade"
  /\ Current.current_step = "waiting_for_seat_choice"

\* C22: an invocation changes the seat of a booking only for an active
\* seat_upgrade workflow of the session at waiting_for_seat_choice, only of
\* the booking that workflow holds, and only to the seat named in the text,
\* which is in the list of available seats the workflow holds; that list is
\* the one of the booking's flight, stored when the step was entered; a turn
\* naming a seat outside the list leaves rows and bookings as they were, and
\* the resumed handler answers that the seat is not available
C22_SeatFromStoredList ==
  /\ [][/\ (Invocation /\ SeatChanged # {}) =>
             \E i \in ActiveRows(turn.user_id, turn.session_id) :
                /\ wf[i].workflow_type = "seat_upgrade"
                /\ wf[i].current_step = "waiting_for_seat_choice"
                /\ SeatOf[turn.msg] # <<>>
                /\ SeatOf[turn.msg] \in Listed(wf[i])
                /\ \A j \in SeatChanged :
                      /\ bookings[j].booking_id = Get(wf[i].state_data, "booking_id")
                      /\ bookings'[j].seat_number = SeatOf[turn.msg]
        /\ ( /\ AtSeatChoice
             /\ SeatOf[turn.msg] # <<>>
             /\ SeatOf[turn.msg] \notin Listed(Current) ) =>
               /\ wf' = wf
               /\ bookings' = bookings
               /\ last'.handler = "process_seat_upgrade" =>
                     last'.resp = "upgrade_seat_unavailable"]_vars
  /\ [](\A i \in 1..Len(wf) :
          (wf[i].workflow_type = "seat_upgrade"
             /\ wf[i].current_step = "waiting_for_seat_choice") =>
            \E j \in 1..Len(bookings) :
               /\ bookings[j].booking_id = Get(wf[i].state_data, "booking_id")
               /\ Get(wf[i].state_data, "available_seats") =
                    get_available_seats(bookings[j].flight_number))

\* with the upgrade of BK001 waiting for the seat, 10A (a seat of the other
\* flight's list) was refused, and the workflow and the seat are as before
C22_Witness ==
  /\ pc = "idle"
  /\ last.resp = "upgrade_seat_unavailable"
  /\ last.handler = "process_seat_upgrade"
  /\ last.seen.current_step = "waiting_for_seat_choice"
  /\ Get(last.seen.state_data, "booking_id") = <<"B","K","0","0","1">>
  /\ bookings = sample_bookings
  /\ \E i \in 1..Len(wf) : wf[i] = last.seen

\* the seat of BK002 was changed to 10A, a seat of its flight's list
C22_Upgraded ==
  /\ pc = "idle"
  /\ last.resp = "upgrade_done"
  /\ bookings[2].seat_number = <<"1","0","A">>
  /\ IsCompleted(wf, last.seen.workflow_id)

\* a turn asking for the list of bookings reaches the handler of a workflow
\* of this type that waits for the booking id, and the user has bookings
AsksForList(workflow_type) ==
  /\ FirstInvocation
  /\ ~Rule2
  /\ Current.workflow_type = workflow_type
  /\ Current.current_step = "waiting_for_id"
  /\ Has(turn.msg, show_all_words)
  /\ Len(get_user_bookings(bookings, turn.user_id)) > 0
  /\ pc' = "idle"
  /\ last'.handler = TypeHandler(workflow_type)

\* C23: with a cancel_booking or a change_flight workflow at waiting_for_id,
\* the handler answers a turn that asks to show all or to list with the list
\* of the user's bookings, and the workflow rows stay as they were
C23_ShowAllLists ==
  [][\A type \in {"cancel_booking", "change_flight"} :
        AsksForList(type) => (last'.resp = "booking_list" /\ wf' = wf)]_vars

\* the half of C23 about cancel_booking
C23_CancelShowAllLists ==
  [][AsksForList("cancel_booking") => (last'.resp = "booking_list" /\ wf' = wf)]_vars

\* the list was given to a user who is cancelling
C23_CancelListed ==
  /\ pc = "idle"
  /\ last.resp = "booking_list"
  /\ last.handler = "process_cancellation"
  /\ last.seen.current_step = "waiting_for_id"

\* the invocation that ends the turn
TurnEnds == pc = "dispatch" /\ pc' = "idle"

\* the workflow the first invocation of the turn read
SeenFirst == IF depth = 0 THEN Current ELSE last.seen

\* the turn in progress met a cancel_booking workflow at confirm
AtConfirm ==
  /\ SeenFirst # None
  /\ SeenFirst.workflow_id # 0
  /\ SeenFirst.status = "active"
  /\ SeenFirst.workflow_type = "cancel_booking"
  /\ SeenFirst.current_step = "confirm"

\* the text asks about the fee or the refund and nothing else, and the turn
\* is not classified as another task (which the dispatcher would query)
PolicyQuestion ==
  /\ Has(turn.msg, {<<"f","e","e">>, <<"r","e","f","u","n","d">>})
  /\ ~Has(turn.msg, change_instead_words)
  /\ turn.intent \notin task_intents \ {"cancel_booking"}

\* C24: a turn asking a policy question of a cancel_booking workflow at
\* confirm ends with the policy text as its answer, the workflow row as it
\* was (active, at confirm, same booking id) and the bookings unchanged
C24_PolicyQuestionAnswered ==
  [][(TurnEnds /\ AtConfirm /\ PolicyQuestion) =>
       /\ last'.resp = "cancel_policy"
       /\ \E i \in 1..Len(wf') : wf'[i] = SeenFirst
       /\ bookings' = bookings]_vars

\* the part of C24 about the state: no invocation of such a turn changes a
\* workflow row or a booking
C24_PolicyQuestionKeepsState ==
  [][(Invocation /\ AtConfirm /\ PolicyQuestion) =>
       (wf' = wf /\ bookings' = bookings)]_vars

\* the policy text was the answer at the confirmation
C24_PolicyGiven ==
  /\ pc = "idle"
  /\ last.resp = "cancel_policy"
  /\ last.seen.current_step = "confirm"
  /\ \E i \in 1..Len(wf) : wf[i] = last.seen

\* C24 for the turns that are not classified as informational: the handler
\* of the cancellation gives the policy text
C24_HandlerAnswersPolicy ==
  [][(TurnEnds /\ AtConfirm /\ PolicyQuestion
        /\ turn.intent \notin informational_intents) =>
       /\ last'.resp = "cancel_policy"
       /\ last'.handler = "process_cancellation"
       /\ wf' = wf
       /\ bookings' = bookings]_vars

\* the text asks to change the flight
ChangeInstead == Has(turn.msg, change_instead_words)

\* after the step the only active workflow of the turn's session is a
\* change_flight workflow at waiting_for_new_date holding this booking id
RetargetedTo(booking_id) ==
  /\ \E i \in 1..Len(wf') :
        /\ wf'[i].session_id = turn.session_id
        /\ wf'[i].status = "active"
        /\ wf'[i].workflow_type = "change_flight"
        /\ wf'[i].current_step = "waiting_for_new_date"
        /\ Get(wf'[i].state_data, "booking_id") = booking_id
  /\ \A i, j \in 1..Len(wf') :
        (wf'[i].session_id = turn.session_id /\ wf'[i].status = "active"
           /\ wf'[j].session_id = turn.session_id /\ wf'[j].status = "active") => i = j

\* C25: a turn that asks to change the flight instead, met by a
\* cancel_booking workflow at confirm holding booking id b, ends with a
\* change_flight workflow at waiting_for_new_date holding b as the session's
\* active workflow and with the bookings unchanged, whatever the intent
C25_ChangeInsteadKeepsId ==
  [][(TurnEnds /\ AtConfirm /\ ChangeInstead) =>
       /\ RetargetedTo(Get(SeenFirst.state_data, "booking_id"))
       /\ bookings' = bookings]_vars

\* C25 for the turns classified as the cancellation or as no task, which
\* reach the handler of the cancellation
C25_HandlerRetargets ==
  [][(TurnEnds /\ AtConfirm /\ ChangeInstead
        /\ turn.intent \in {"cancel_booking", "greeting"}) =>
       /\ RetargetedTo(Get(SeenFirst.state_data, "booking_id"))
       /\ last'.resp = "change_instead"
       /\ bookings' = bookings]_vars

\* no invocation of such a turn changes a booking
C25_ChangeInsteadCancelsNothing ==
  [][(Invocation /\ AtConfirm /\ ChangeInstead) => bookings' = bookings]_vars

\* the cancellation of BK001 became a change of BK001
C25_Retargeted ==
  /\ pc = "idle"
  /\ last.resp = "change_instead"
  /\ last.seen.workflow_type = "cancel_booking"
  /\ \E i \in 1..Len(wf) :
        /\ wf[i].workflow_id = last.seen.workflow_id
        /\ wf[i].workflow_type = "change_flight"
        /\ wf[i].current_step = "waiting_for_new_date"
        /\ Get(wf[i].state_data, "booking_id") = <<"B","K","0","0","1">>

\* the request classified as change_flight left a change_flight workflow
\* without a booking id
C25_IdLost ==
  /\ pc = "idle"
  /\ last.intent = "change_flight"
  /\ last.resp = "change_ask_id"
  /\ last.seen # None
  /\ last.seen.workflow_id # 0
  /\ last.seen.workflow_type = "cancel_booking"
  /\ last.seen.current_step = "confirm"
  /\ IsCompleted(wf, last.seen.workflow_id)

\* the rows the step adds that are active
NewActiveRows ==
  { i \in 1..Len(wf') : i > Len(wf) /\ wf'[i].status = "active" }

\* C26: an invocation in which the booking lookup shows a booking or lists
\* the bookings adds no active workflow row
C26_LookupLeavesNoWorkflow ==
  [][(Invocation /\ last'.handler = "process_booking_check"
        /\ last'.resp \in {"booking_details", "booking_list"}) =>
       NewActiveRows = {}]_vars

\* the part of C26 about the list of several bookings
C26_ListLeavesNoWorkflow ==
  [][(Invocation /\ last'.handler = "process_booking_check"
        /\ last'.resp = "booking_list") =>
       wf' = wf]_vars

\* the bookings were listed while no workflow was active
C26_Listed ==
  /\ pc = "idle"
  /\ last.resp = "booking_list"
  /\ last.handler = "process_booking_check"
  /\ wf = <<>>

\* the turn in progress met an active workflow of this type, its text is a
\* closing remark and it is classified as no task and no question
ClosingRemarkTo(workflow_type) ==
  /\ SeenFirst # None
  /\ SeenFirst.workflow_id # 0
  /\ SeenFirst.status = "active"
  /\ SeenFirst.workflow_type = workflow_type
  /\ Has(turn.msg, baggage_closing_words)
  /\ turn.intent = "greeting"

\* no workflow of the turn's session is active after the step
NoneActiveAfter ==
  \A i \in 1..Len(wf') :
     wf'[i].session_id = turn.session_id => wf'[i].status # "active"

\* C27: a turn with a closing remark that meets a baggage_info or a
\* policy_inquiry workflow ends with no active workflow in the session
C27_ClosingRemarkCompletes ==
  [][\A type \in {"baggage_info", "policy_inquiry"} :
        (TurnEnds /\ ClosingRemarkTo(type)) => NoneActiveAfter]_vars

\* the half of C27 about baggage_info: the workflow met is completed
C27_BaggageClosingCompletes ==
  [][(TurnEnds /\ ClosingRemarkTo("baggage_info")) =>
       IsCompleted(wf', SeenFirst.workflow_id)]_vars

\* a closing remark completed the baggage_info workflow
C27_BaggageClosed ==
  /\ pc = "idle"
  /\ last.resp = "baggage_closing"
  /\ IsCompleted(wf, last.seen.workflow_id)
  /\ \A i \in 1..Len(wf) : wf[i].status = "completed"

\* C28: every step leaves each completed workflow row in the table, with the
\* same id, session, user, type, step and data and with status completed: no
\* turn deletes it and no turn writes it back as active
C28_CompletedStays ==
  [][\A i \in 1..Len(wf) :
        wf[i].status = "completed" => \E j \in 1..Len(wf') : wf'[j] = wf[i]]_vars

\* the last turn found no active workflow, the one before having been
\* completed, and started a workflow of the same type: the completed row is
\* in the table beside the new one
C28_Witness ==
  /\ pc = "idle"
  /\ last.entry = 2
  /\ last.seen = None
  /\ Len(wf) = 2
  /\ wf[1].status = "completed"
  /\ wf[2].status = "active"
  /\ wf[1].session_id = wf[2].session_id
  /\ wf[1].workflow_type = wf[2].workflow_type

(***************************************************************************)
(* C29                                                                     *)
(***************************************************************************)
\* the rows of the table with this id
RowsOf(workflow_id) == { i \in 1..Len(wf) : wf[i].workflow_id = workflow_id }

\* a and b have both finished a request of one session, both handlers read
\* the same workflow state, a stored a detail that state did not hold, and
\* the row now in the table is the one b wrote, without that detail
LostBetween(a, b) ==
  /\ a # b
  /\ inflight[a].pc = "done" /\ inflight[b].pc = "done"
  /\ inflight[a].turn.session_id = inflight[b].turn.session_id
  /\ inflight[a].ret # None
  /\ inflight[a].ret = inflight[b].ret
  /\ inflight[a].wrote # None /\ inflight[b].wrote # None
  /\ inflight[a].wrote.workflow_id = inflight[a].ret.workflow_id
  /\ inflight[b].wrote.workflow_id = inflight[a].ret.workflow_id
  /\ \E i \in RowsOf(inflight[a].ret.workflow_id) :
       /\ wf[i] = inflight[b].wrote
       /\ \E k \in BookSlots :
            /\ Get(inflight[a].ret.state_data, k) = <<>>
            /\ Get(inflight[a].wrote.state_data, k) # <<>>
            /\ Get(wf[i].state_data, k) = <<>>

LostUpdate == \E a \in Workers, b \in Workers : LostBetween(a, b)

C29_BothKept ==
  /\ serialized
  /\ \E a \in Workers, b \in Workers :
       /\ a # b
       /\ inflight[a].pc = "done" /\ inflight[b].pc = "done"
       /\ inflight[a].turn.session_id = inflight[b].turn.session_id
       /\ inflight[a].ret # None
       /\ inflight[a].wrote # None /\ inflight[b].wrote # None
       /\ inflight[b].ret = inflight[a].wrote
       /\ \E k \in BookSlots :
            /\ Get(inflight[a].ret.state_data, k) = <<>>
            /\ Get(inflight[a].wrote.state_data, k) # <<>>
            /\ Get(inflight[b].wrote.state_data, k) # <<>>

(***************************************************************************)
(* C30                                                                     *)
(***************************************************************************)
\* the rows of a session, oldest update first
OwnRows(rows, session_id) == SelectSeq(rows, LAMBDA r : r.session_id = session_id)

\* a row apart from its id (a uuid, never the same in two runs)
Anonymous(row) == [row EXCEPT !.workflow_id = 0]

AnonymousEntry(entry) ==
  IF entry.present THEN [entry EXCEPT !.value = Anonymous(@)] ELSE entry

\* a session's workflow state: its rows and its cache entry
View(S, session_id) ==
  [rows  |-> [i \in 1..Len(OwnRows(S.wf, session_id)) |->
                Anonymous(OwnRows(S.wf, session_id)[i])],
   entry |-> AnonymousEntry(S.cache[session_id])]

\* the session's workflow state is what its own turns alone would have left
AsAlone(session_id) == View(Store, session_id) = View(solo[session_id], session_id)

\* a step that is an invocation of process_message (not the arrival of a
\* request, not the passing of time)
EngineStep == pc = "dispatch" /\ (pc' = "idle" \/ depth' > depth)

\* a call of the engine leaves the rows and the cache entry of every other
\* session as they are
OthersUntouched ==
  EngineStep =>
    \A s \in RaceSessions \ {turn.session_id} :
      /\ OwnRows(wf', s) = OwnRows(wf, s)
      /\ cache'[s] = cache[s]

\* a call of the engine that finds its session's workflow state and the
\* bookings as the session's own turns alone would have left them leaves the
\* workflow state as they would have
AloneGivenBookings ==
  \A s \in RaceSessions :
    (EngineStep /\ s = turn.session_id /\ AsAlone(s) /\ bookings = solo[s].bookings)
      => AsAlone(s)'

\* C30 as stated: a turn changes no row and no cache entry of another
\* session, and after every turn each session's workflow state is the one
\* its own turns alone would have produced
C30_SessionsAlone ==
  /\ [][OthersUntouched]_vars
  /\ [](pc = "idle" => \A s \in RaceSessions : AsAlone(s))

\* C30: a turn changes no row and no cache entry of another session, and a
\* turn that finds its session's workflow state and the bookings table as
\* the session's own turns alone would have left them leaves the workflow
\* state as they would have
C30_AloneGivenBookings == [][OthersUntouched /\ AloneGivenBookings]_vars

\* turns of the two sessions have alternated, each session has a workflow,
\* and both are as if the session had been alone
C30_Witness ==
  /\ pc = "idle" /\ turns = MaxRaceTurns
  /\ \A s \in RaceSessions : Len(OwnRows(wf, s)) > 0 /\ AsAlone(s)
  /\ \E s \in RaceSessions : solo[s].bookings # sample_bookings

\* the other session has made a booking, and this session's workflow is not
\* where its own turns alone would have brought it
C30_Diverged ==
  /\ pc = "idle"
  /\ \E s \in RaceSessions :
       /\ ~AsAlone(s)
       /\ solo[s].bookings = sample_bookings
       /\ bookings # sample_bookings

\* threads: a step of a request leaves the rows and the cache entry of every
\* other session as they are
C30_ThreadsLeaveOthers ==
  [][\A w \in Workers :
       inflight'[w] # inflight[w] =>
         \A s \in RaceSessions \ {inflight'[w].turn.session_id} :
           /\ OwnRows(wf', s) = OwnRows(wf, s)
           /\ cache'[s] = cache[s]]_vars

(***************************************************************************)
(* C31                                                                     *)
(***************************************************************************)
\* the bookings with this id that this user owns
OwnedBy(booking_id, user_id) ==
  { i \in 1..Len(bookings) : /\ bookings[i].booking_id = booking_id
                             /\ bookings[i].user_id = user_id }

\* C31: get_booking(id, user) returns the booking when the user owns it and
\* none for every other user, the empty user included
C31_OwnerOnly ==
  call.op = "get_booking" =>
    IF OwnedBy(call.arg, call.user_id) # {}
    THEN \E i \in OwnedBy(call.arg, call.user_id) : call.ret = bookings[i]
    ELSE call.ret = NoBooking

\* the same for calls that name a user
C31_OwnerOnlyWhenNamed == call.user_id # "" => C31_OwnerOnly

\* the owner got the booking
C31_OwnerServed ==
  /\ call.op = "get_booking" /\ call.user_id = "user123"
  /\ call.ret # NoBooking /\ call.ret.user_id = "user123"

\* another user got none
C31_OtherRefused ==
  /\ call.op = "get_booking" /\ call.user_id = "user456"
  /\ OwnedBy(call.arg, "user123") # {} /\ call.ret = NoBooking

\* a call with the empty user got the booking of user123
C31_EmptyUserServed ==
  /\ call.op = "get_booking" /\ call.user_id = ""
  /\ call.ret # NoBooking /\ call.ret.user_id = "user123"

(***************************************************************************)
(* C32                                                                     *)
(***************************************************************************)
\* the Gregorian calendar, written out once more
MonthLength(year, month) ==
  IF month = 2
  THEN IF (year % 4 = 0 /\ year % 100 # 0) \/ year % 400 = 0 THEN 29 ELSE 28
  ELSE IF month \in {4, 6, 9, 11} THEN 30 ELSE 31

\* the number of the day in its year
RECURSIVE DayOfYear(_, _, _)
DayOfYear(year, month, day) ==
  IF month = 1 THEN day
  ELSE MonthLength(year, month - 1) + DayOfYear(year, month - 1, day)

IsDay(d) == d[2] \in 1..12 /\ d[3] >= 1 /\ d[3] <= MonthLength(d[1], d[2])

\* the days from the day now to d, for a day of that year or of the next
DaysFrom(now, d) ==
  IF d[1] = now[1]
  THEN DayOfYear(d[1], d[2], d[3]) - DayOfYear(now[1], now[2], now[3])
  ELSE DayOfYear(now[1], 12, 31) - DayOfYear(now[1], now[2], now[3])
         + DayOfYear(d[1], d[2], d[3])

\* d is a day of the calendar with now < d <= now + 365 (a day of a later
\* year than the next is more than 365 days away)
Bookable(now, d) ==
  /\ IsDay(d)
  /\ d[1] \in {now[1], now[1] + 1}
  /\ DaysFrom(now, d) >= 1 /\ DaysFrom(now, d) <= 365

\* the <<year, month, day>> a text of three numbers denotes
Denoted(s) ==
  LET parts == SplitDash(s, <<>>)
  IN IF Len(parts) = 3 /\ \A i \in 1..3 : AllDigits(parts[i])
     THEN << ToInt(parts[1]), ToInt(parts[2]), ToInt(parts[3]) >>
     ELSE << 0, 0, 0 >>

\* C32: validate_date accepts a text exactly when it denotes a day of the
\* calendar after today and at most 365 days after today
C32_AcceptsBookableDays ==
  call.op = "validate_date" =>
    (call.ret[1] <=> Bookable(call.arg[1], Denoted(call.arg[2])))

\* the day 365 days after today was accepted, and it was a 29th of February
C32_Witness ==
  /\ call.op = "validate_date" /\ call.arg = << <<2027, 3, 1>>, <<"2","0","2","8","-","0","2","-","2","9">> >>
  /\ call.ret[1]

\* on the day of this run the 29th of February 2027 is refused as no day of
\* the calendar, the 29th of February 2028 as a day too far away, today as
\* not in the future
C32_RefusalReasons ==
  (call.op = "validate_date" /\ call.arg[1] = today) =>
    /\ call.arg[2] = <<"2","0","2","7","-","0","2","-","2","9">> => call.ret = << FALSE, "not_leap_year" >>
    /\ call.arg[2] = <<"2","0","2","8","-","0","2","-","2","9">> => call.ret = << FALSE, "date_too_far" >>
    /\ call.arg[2] = <<"2","0","2","7","-","1","1","-","0","3">> => call.ret = << FALSE, "date_too_far" >>
    /\ call.arg[2] = <<"2","0","2","7","-","1","1","-","0","2">> => call.ret = << TRUE, "" >>
    /\ call.arg[2] = <<"2","0","2","6","-","1","1","-","0","2">> => call.ret = << FALSE, "date_in_past" >>

\* the day 366 days after today was refused
C32_Refused ==
  /\ call.op = "validate_date" /\ call.arg = << today, <<"2","0","2","7","-","1","1","-","0","3">> >> /\ ~call.ret[1]

(***************************************************************************)
(* C33                                                                     *)
(***************************************************************************)
\* the rows of the table after a step that were not in it before: one per
\* save and per completion that changed anything
Rewritten(before, after) ==
  { i \in 1..Len(after) : \A j \in 1..Len(before) : before[j] # after[i] }

\* the turn that has just ended completed the workflow it read and saved a
\* new one
TwoWrites ==
  /\ pc = "idle"
  /\ last.seen.workflow_id # 0
  /\ IsCompleted(wf, last.seen.workflow_id)
  /\ Len(wf) > last.rows

C33_ReadTwice == \E w \in Workers : inflight[w].pc = "read" /\ inflight[w].ret # None

(***************************************************************************)
(* C34                                                                     *)
(***************************************************************************)
\* an invocation in which process_book_flight starts a workflow: it ends the
\* turn in that handler and the table has one row more
BookStarts ==
  /\ Invocation
  /\ pc' = "idle"
  /\ last'.handler = "process_book_flight"
  /\ Len(wf') = Len(wf) + 1
  /\ wf'[Len(wf')].workflow_type = "book_flight"

\* C34: the workflow that a turn creates for a booking holds every origin,
\* destination, date and passenger name the turn supplied
C34_CreatingTurnKeepsSlots ==
  [][BookStarts =>
       \A k \in BookSlots :
          turn.entities[k] # <<>> => Get(wf'[Len(wf')].state_data, k) = turn.entities[k]]_vars

\* what the code does: the new workflow starts with no data at all
C34_CreatingTurnDropsSlots ==
  [][BookStarts => wf'[Len(wf')].state_data = EmptyData]_vars

\* a turn that named the airports has created a booking workflow without them
C34_SlotsDropped ==
  /\ pc = "idle" /\ last.entry = 2 /\ last.handler = "process_book_flight"
  /\ last.resp = "book_ask_details"
  /\ Len(wf) = 1 /\ wf[1].state_data = EmptyData

(***************************************************************************)
(* C35                                                                     *)
(***************************************************************************)
\* the step changes of the handlers' step machines, as
\* <<type before, step before, type after, step after>>
StepMachine ==
  { << "cancel_booking", "waiting_for_id", "cancel_booking", "confirm" >>,
    << "change_flight", "waiting_for_id", "change_flight", "waiting_for_new_date" >>,
    << "seat_upgrade", "waiting_for_id", "seat_upgrade", "waiting_for_seat_choice" >>,
    << "cancel_booking", "confirm", "change_flight", "waiting_for_new_date" >> }

StepOf(row) == << row.workflow_type, row.current_step >>

\* the steps at which a workflow has settled on a booking
BookingSteps == { "confirm", "waiting_for_new_date", "waiting_for_seat_choice" }

\* C35: a saved workflow changes its type or step only along its task's step
\* machine, and a workflow at a step that works on a booking names the booking
C35_StepMachine ==
  /\ [][\A i \in 1..Len(wf) : \A j \in 1..Len(wf') :
          (wf'[j].workflow_id = wf[i].workflow_id /\ StepOf(wf'[j]) # StepOf(wf[i]))
            => << wf[i].workflow_type, wf[i].current_step,
                  wf'[j].workflow_type, wf'[j].current_step >> \in StepMachine]_vars
  /\ [](\A i \in 1..Len(wf) :
          wf[i].current_step \in BookingSteps => Get(wf[i].state_data, "booking_id") # <<>>)

\* the turn that has just ended read a workflow at one step and left it, under
\* the same id, at another
Moved(from, to) ==
  /\ pc = "idle"
  /\ last.seen.workflow_id # 0
  /\ StepOf(last.seen) = from
  /\ \E i \in 1..Len(wf) :
        /\ wf[i].workflow_id = last.seen.workflow_id
        /\ StepOf(wf[i]) = to
        /\ Get(wf[i].state_data, "booking_id") # <<>>

\* a cancellation at its confirmation has been redirected into a change
C35_Witness ==
  Moved(<< "cancel_booking", "confirm" >>, << "change_flight", "waiting_for_new_date" >>)

\* the other three step changes have happened
C35_CancelAsked ==
  Moved(<< "cancel_booking", "waiting_for_id" >>, << "cancel_booking", "confirm" >>)

C35_ChangeAsked ==
  Moved(<< "change_flight", "waiting_for_id" >>, << "change_flight", "waiting_for_new_date" >>)

C35_UpgradeAsked ==
  Moved(<< "seat_upgrade", "waiting_for_id" >>, << "seat_upgrade", "waiting_for_seat_choice" >>)

(***************************************************************************)
(* C36                                                                     *)
(***************************************************************************)
\* the invocation that ends the turn called cancel_booking of the airline API
CancelCalled == TurnEnds /\ last'.resp \in { "cancel_done", "cancel_failed" }

\* the bookings a step cancels
CancelledBy ==
  { bookings[i].booking_id : i \in { j \in 1..Len(bookings) :
        bookings[j].status # "cancelled" /\ bookings'[j].status = "cancelled" } }

\* the rows of the table that are active cancellations of the client at
\* their confirmation
ConfirmRows ==
  { i \in ActiveRows(turn.user_id, turn.session_id) :
      /\ wf[i].workflow_type = "cancel_booking"
      /\ wf[i].current_step = "confirm"
      /\ Get(wf[i].state_data, "booking_id") # <<>> }

\* C36: cancel_booking is called only by the first invocation of a turn that
\* finds, in the table, the client's active workflow to be a cancellation at
\* its confirmation, and a booking is cancelled only if that workflow names it;
\* no other step cancels a booking
C36_NoCancelWithoutConfirm ==
  [][/\ CancelCalled =>
          /\ depth = 0
          /\ ConfirmRows # {}
          /\ \A b \in CancelledBy :
                \E i \in ConfirmRows : Get(wf[i].state_data, "booking_id") = b
     /\ CancelledBy # {} => CancelCalled]_vars

\* a booking has just been cancelled on the user's confirmation
C36_Witness ==
  /\ pc = "idle" /\ last.resp = "cancel_done"
  /\ last.seen.workflow_id # 0
  /\ last.seen.workflow_type = "cancel_booking" /\ last.seen.current_step = "confirm"
  /\ IsCompleted(wf, last.seen.workflow_id)
  /\ \E i \in 1..Len(bookings) :
        /\ bookings[i].booking_id = Get(last.seen.state_data, "booking_id")
        /\ bookings[i].status = "cancelled"

(***************************************************************************)
(* C37                                                                     *)
(***************************************************************************)
\* the invocation that ends the turn called cancel_booking, change_flight or
\* upgrade_seat of the airline API
BackendCalled == TurnEnds /\ last'.resp \in { r[1] : r \in BackendCalls }

\* C37: a turn calls cancel_booking, change_flight or upgrade_seat only on a
\* booking of the turn's user, and no step changes a booking of another user
C37_OwnBookingsOnly ==
  [][/\ (BackendCalled /\ Current # None)
           => OwnedBy(Get(Current.state_data, "booking_id"), turn.user_id) # {}
     /\ \A i \in 1..Len(bookings) :
           bookings'[i] # bookings[i] => bookings[i].user_id = turn.user_id]_vars

\* what holds of the code: the call is made on the booking the workflow that
\* was read names, whose owner is the user who started that workflow
C37_BookingOfWorkflowOwner ==
  [][/\ BackendCalled => /\ Current # None
                         /\ OwnedBy(Get(Current.state_data, "booking_id"),
                                    Current.user_id) # {}
     /\ \A i \in 1..Len(bookings) :
           bookings'[i] # bookings[i] => /\ BackendCalled
                                         /\ bookings[i].user_id = Current.user_id]_vars

(***************************************************************************)
(* C38                                                                     *)
(***************************************************************************)
\* C38: no step changes a booking that is cancelled
C38_CancelledIsFinal ==
  [][\A i \in 1..Len(bookings) :
        bookings[i].status = "cancelled" => bookings'[i] = bookings[i]]_vars

\* what holds of the code: a cancelled booking stays cancelled and keeps its
\* date and its flight
C38_CancelledStaysCancelled ==
  [][\A i \in 1..Len(bookings) :
        bookings[i].status = "cancelled"
          => /\ bookings'[i].status = "cancelled"
             /\ bookings'[i].departure_date = bookings[i].departure_date
             /\ bookings'[i].flight_number = bookings[i].flight_number]_vars

\* a cancelled booking has got another seat
C38_CancelledModified ==
  /\ pc = "idle" /\ last.resp = "upgrade_done"
  /\ \E i \in 1..Len(sample_bookings) :
        /\ bookings[i].status = "cancelled"
        /\ bookings[i].seat_number # sample_bookings[i].seat_number

(***************************************************************************)
(* C39                                                                     *)
(***************************************************************************)
\* the turn in progress names no task to switch to: neither its intent nor
\* its text
NoTarget ==
  /\ turn.intent \notin switch_target_intents
  /\ ~Has(turn.msg, {<<"c","a","n","c","e","l">>, <<"c","h","a","n","g","e">>, <<"m","o","d","i","f","y">>, <<"u","p","g","r","a","d","e">>, <<"s","e","a","t">>, <<"b","o","o","k">>})

\* the first invocation of the turn in progress takes, or took, the task
\* switch
SwitchTurn ==
  IF depth = 0 THEN ~Rule1 /\ ~Rule2 /\ ~Rule3 /\ Rule4 ELSE last.entry = 4

\* the rows that the turn which a step ends has added and left active
FreshRows ==
  { i \in 1..Len(wf') : /\ wf'[i].workflow_id > (IF depth = 0 THEN Len(wf) ELSE last.rows)
                        /\ wf'[i].status = "active" }

\* C39: an invocation that completes the active workflow under the task
\* switch and finds no task to switch to does not go on to the handler or the
\* follow-up of the completed workflow's type, and the turn does not end with
\* a new workflow of that type
C39_SwitchLeavesOldTask ==
  [][/\ (FirstInvocation /\ SwitchTurn /\ NoTarget) => last'.rule \notin {5, 6, 10}
     /\ (TurnEnds /\ SwitchTurn /\ NoTarget)
           => \A i \in FreshRows : wf'[i].workflow_type # SeenFirst.workflow_type]_vars

\* what holds of the code: the task switch completes the workflow it found
C39_SwitchCompletes ==
  [][(FirstInvocation /\ SwitchTurn) => IsCompleted(wf', Current.workflow_id)]_vars

\* a turn that switched away from a cancellation without naming a task has
\* ended with a new cancellation
C39_OldTaskRestarted ==
  /\ pc = "idle"
  /\ last.entry = 4 /\ last.rule = 10
  /\ last.intent \notin switch_target_intents
  /\ last.seen.workflow_id # 0
  /\ IsCompleted(wf, last.seen.workflow_id)
  /\ \E i \in 1..Len(wf) : /\ wf[i].workflow_id > last.rows
                           /\ wf[i].status = "active"
                           /\ wf[i].workflow_type = last.seen.workflow_type

====
